---------------------------- MODULE Spec2Model ----------------------------
(***************************************************************************)
(* Zenith data plane and gang scheduler.                                   *)
(*                                                                         *)
(*   Spec       the gang scheduler (zenith-scheduler: scheduler.rs,        *)
(*              job.rs, node.rs): job store, pending queue, node registry  *)
(*   SpecPlace  the scheduler with a first GPU job of any size submitted   *)
(*   SpecRegistry  the node registry (node.rs) and a caller that builds,   *)
(*              changes and registers Nodes                                *)
(*   SpecPlugin  one WasmPlugin handle (core/src/wasm_host.rs) and the      *)
(*              threads that call on_event on it                           *)
(*   SpecPublish  zenith_publish (core/src/lib.rs) on a started engine       *)
(*   SpecLog    LoggingAPI::log and clear_logs (host-api/src/logging)       *)
(*   SpecGang   the scheduler over nodes registered with GPUs in use        *)
(*   SpecBreaker  a CircuitBreaker and its caller (zenith-runtime-cpu)      *)
(*   SpecObserver  the ring, and a third thread calling len()               *)
(*   SpecBatch  the ring with a producer that calls push_batch              *)
(*   SpecLocks  the scheduler's calls made by concurrent threads, a step   *)
(*              per lock taken                                             *)
(*   SpecRing   the SPSC ring (zenith-runtime-cpu/src/buffer.rs), one      *)
(*              producer and one consumer, each load/slot access/store a   *)
(*              step of its own                                            *)
(*   SpecChain  the consumer's plugin chain (core/src/engine.rs,           *)
(*              core/src/wasm_host.rs)                                     *)
(*   SpecChainFair  the same, the consumer thread scheduled fairly         *)
(***************************************************************************)
EXTENDS Integers, Sequences, FiniteSets, TLC

VARIABLES
    \* ---- scheduler (Scheduler, NodeRegistry) ----
    jobs,           \* Scheduler.jobs: job id -> Job (NoJob when not stored)
    pending_queue,  \* Scheduler.pending_queue: job id -> priority
    nodes,          \* NodeRegistry.nodes: node id -> Node (NoNode when not registered)
    config,         \* Scheduler.config
    now,            \* Utc::now(), in whole seconds
    ret,            \* what the last call returned
    calls,          \* the number of calls made so far
    threads,        \* the threads calling the scheduler: position inside a call
    jobs_lock,      \* the holder of the RwLock of Scheduler.jobs (0: free)
    queue_lock,     \* the holder of the RwLock of Scheduler.pending_queue (0: free)
    \* ---- SPSC ring (SpscRingBuffer, its producer and its consumer) ----
    ring,           \* SpscRingBuffer: capacity, mask, head, tail, buffer
    producer,       \* the producer thread inside try_push: position and locals
    consumer,       \* the consumer thread inside try_pop: position and locals
    pushed,         \* the items of the try_push calls that returned Ok, in order
    popped,         \* the items the try_pop calls returned in Some, in order
    race,           \* a slot was read while unwritten, or accessed by both threads at once
    \* ---- engine (ZenithEngine and its consumer thread) ----
    plugins,        \* ZenithEngine.plugins: the loaded plugins, in load order
    running,        \* ZenithEngine.running
    events,         \* ZenithEngine.buffer: the events published and not popped yet
    published,      \* the number of events published so far
    chain,          \* the consumer thread: position, event, plugin index, allowed
    verdict,        \* the consumer's verdict on the last event it ran the chain for
    \* ---- a caller of the node registry ----
    built,          \* the Node the caller holds (NoNode when it holds none)
    \* ---- one WasmPlugin handle and the threads that call on_event on it ----
    handle,         \* WasmPlugin: the store's Mutex (holder, 0: free), the calls run in the store
    callers,        \* the threads: position inside on_event, and what it returned last
    \* ---- the FFI surface (zenith_init, zenith_publish) ----
    buffer_capacity, \* the capacity of the engine's ring (ZenithRingBuffer)
    code,           \* what the last zenith_publish returned, and for what arguments
    \* ---- the host's log (LOG_BUFFER) ----
    log_buffer,     \* LOG_BUFFER: the entries kept, oldest first
    logged,         \* the number of LoggingAPI::log calls since the buffer was last empty
    \* ---- zenith-runtime-cpu: a CircuitBreaker and its caller ----
    breaker,        \* CircuitBreaker: config, state, the counters, last_failure_time
    cb,             \* the caller: the clock (Instant::now), what call returned last, whether
                    \* it ran the wrapped function, the failures recorded since the last success
    \* ---- zenith-runtime-cpu: other callers of the ring ----
    observer,       \* a thread inside len(): position, the head it loaded, what it returned
    batcher         \* the producer inside push_batch: the vector, the count, position

schedVars == <<jobs, pending_queue, nodes, config, now, ret, calls, threads, jobs_lock, queue_lock>>
ringVars == <<ring, producer, consumer, pushed, popped, race>>
engineVars == <<plugins, running, events, published, chain, verdict>>
registryVars == <<built>>
pluginVars == <<handle, callers>>
ffiVars == <<buffer_capacity, code>>
logVars == <<log_buffer, logged>>
breakerVars == <<breaker, cb>>
callerVars == <<observer, batcher>>
runtimeVars == <<breakerVars, callerVars>>
moreVars == <<registryVars, pluginVars, ffiVars, logVars, runtimeVars>>
vars == <<schedVars, ringVars, engineVars, moreVars>>

----------------------------------------------------------------------------
(* Bounds of the model.                                                    *)

\* Job ids are 1..NumJobs (Uuid::new_v4() in Job::new: every job a fresh id).
NumJobs == 2
\* The wall clock (Utc::now(), in whole seconds) reads 0..MaxTime.
MaxTime == 2
\* A u64 count of seconds is SecondsBits wide (64 in the source).
SecondsBits == 8
\* The scheduler and its registry take at most MaxCalls steps (calls, and
\* lapses of time between them).
MaxCalls == 5
\* The threads that call the scheduler concurrently are 1..NumThreads.
NumThreads == 2
\* The ring's counters head and tail are WordBits wide (usize in the source).
WordBits == 3
\* Rings are made with a requested capacity of 1..MaxCapacity.
MaxCapacity == 4
\* The producer pushes the items 1..MaxItems, in this order.
MaxItems == 9
\* Placement is examined for jobs of 1..MaxGpuCount GPUs.
MaxGpuCount == 6
\* allocate_gpus is called for 0..MaxAllocate GPUs.
MaxAllocate == 2
\* LoggingAPI::log is called at most MaxLogCalls times between two clear_logs.
MaxLogCalls == 1200
\* CircuitBreakerConfig: failure_threshold and success_threshold of
\* 1..MaxThreshold, reset_timeout of ResetTimeout ticks of the clock.
MaxThreshold == 3
ResetTimeout == 2
\* The clock (Instant::now) runs from 0 to MaxClock.
MaxClock == 3
\* At most MaxBreakerCalls calls are made on the circuit breaker.
MaxBreakerCalls == 6
\* push_batch is handed a vector of 1..MaxBatch items.
MaxBatch == 3
\* zenith_init is called with a buffer_size of 1..MaxBufferSize.
MaxBufferSize == 2
\* At most MaxOnEvent on_event invocations on the one plugin handle.
MaxOnEvent == 3
\* At most MaxPlugins plugins are loaded and MaxEvents events published.
MaxPlugins == 2
MaxEvents == 2

JobIds == 1..NumJobs
ThreadIds == 1..NumThreads
NodeIds == {"node-1", "node-2"}

----------------------------------------------------------------------------
(* Option<T>: None is <<>>, Some(x) is <<x>>.                              *)

None == <<>>
Some(x) == <<x>>
IsSome(o) == o /= <<>>
Unwrap(o) == o[1]

\* The elements of a sequence.
Range(s) == {s[i] : i \in 1..Len(s)}

\* All orders in which the elements of a finite set can be iterated.
Orders(S) ==
    {s \in [1..Cardinality(S) -> S] : \A x \in S : \E i \in 1..Cardinality(S) : s[i] = x}

\* Sum of a sequence of naturals.
RECURSIVE SumSeq(_)
SumSeq(s) == IF s = <<>> THEN 0 ELSE s[1] + SumSeq(Tail(s))

\* The first n elements of s (Iterator::take).
Take(s, n) == SubSeq(s, 1, IF n < Len(s) THEN n ELSE Len(s))

Min(a, b) == IF a < b THEN a ELSE b

----------------------------------------------------------------------------
(* job.rs                                                                  *)

JobState ==
    {"Pending", "Queued", "Scheduled", "Running", "Suspended",
     "Completed", "Failed", "Cancelled", "Timeout"}

TerminalStates == {"Completed", "Failed", "Cancelled", "Timeout"}

\* The job descriptors submitted: SchedulingPolicy.priority,
\* ResourceRequirements.gpu_count, SchedulingPolicy.gang_schedule, and
\* ResourceRequirements.required_gpu_models at its default (empty = any).
Descriptor(priority, gpu_count, gang_schedule) ==
    [priority |-> priority, gpu_count |-> gpu_count, gang_schedule |-> gang_schedule,
     required_gpu_models |-> {}]
Descriptors ==
    {Descriptor(10, 4, TRUE), Descriptor(100, 4, FALSE), Descriptor(10, 0, TRUE)}

\* A descriptor that names the GPU models it accepts.
Requiring(descriptor, models) == [descriptor EXCEPT !.required_gpu_models = models]

\* The descriptors of GPU jobs by which placement is examined: 1..MaxGpuCount
\* GPUs, gang or not, any model or a model no node reports.
PlaceDescriptors ==
    {Requiring(Descriptor(10, gpu_count, gang_schedule), models) :
        gpu_count \in 1..MaxGpuCount,
        gang_schedule \in BOOLEAN,
        models \in {{}, {"NVIDIA H100"}}}

\* No entry in Scheduler.jobs under this id.
NoJob == [state |-> "Absent"]

\* Job::new
NewJob(id, descriptor) ==
    [id |-> id,
     descriptor |-> descriptor,
     state |-> "Pending",
     schedule_time |-> None,
     start_time |-> None,
     end_time |-> None,
     allocated_nodes |-> {},
     allocated_gpus |-> <<>>,
     message |-> ""]

\* Job::transition
transition(job, new_state, message, t) ==
    [job EXCEPT
        !.state = new_state,
        !.message = message,
        !.schedule_time = IF new_state = "Scheduled" THEN Some(t) ELSE @,
        !.start_time = IF new_state = "Running" THEN Some(t) ELSE @,
        !.end_time = IF new_state \in TerminalStates THEN Some(t) ELSE @]


----------------------------------------------------------------------------
(* node.rs                                                                 *)

\* The GPUs each node's agent finds and reports: 4 on node-1, 1 on node-2.
NodeGpuCount(node_id) == IF node_id = "node-1" THEN 4 ELSE 1

\* NodeRegistry.heartbeat_timeout_seconds (NodeRegistry::new's argument).
heartbeat_timeout_seconds == 1

\* No node registered under this id.
NoNode == [health |-> "Absent"]

\* A GpuDevice as an agent reports it: device "cuda:<i>", its model name,
\* not allocated.
FreeGpu(i) ==
    [device_id |-> i, device_name |-> "NVIDIA A100", allocated |-> FALSE,
     allocated_job_id |-> None]

\* A NodeTopology with n GPUs cuda:0 .. cuda:n-1.
Topology(n) == [gpus |-> [i \in 1..n |-> FreeGpu(i - 1)]]

\* Node::new
NewNode(id, topology, t) ==
    [id |-> id,
     topology |-> topology,
     health |-> "Healthy",
     last_heartbeat |-> t,
     running_jobs |-> <<>>]

Unallocated(g) == ~g.allocated

\* Node::available_gpus
available_gpus(node) == Len(SelectSeq(node.topology.gpus, Unallocated))

\* Node::is_stale
is_stale(node, max_age_seconds, t) == t - node.last_heartbeat > max_age_seconds

\* The health predicate without its look at Node.health.
NodeIsFresh(node, t) == ~is_stale(node, heartbeat_timeout_seconds, t)

\* The health predicate of healthy_nodes and is_node_healthy.
NodeIsHealthy(node, t) ==
    node.health = "Healthy" /\ ~is_stale(node, heartbeat_timeout_seconds, t)

\* is_node_healthy that asks only whether the node is registered.
is_node_registered(reg, node_id, t) == reg[node_id] /= NoNode

\* NodeRegistry::is_node_healthy
is_node_healthy(reg, node_id, t) ==
    IF reg[node_id] /= NoNode THEN NodeIsHealthy(reg[node_id], t) ELSE FALSE

\* The registered node ids.
Registered(reg) == {n \in NodeIds : reg[n] /= NoNode}

\* NodeRegistry::healthy_nodes; iter is the order in which the HashMap yields
\* its values.
healthy_nodes(reg, iter, t) ==
    LET Healthy(n) == NodeIsHealthy(reg[n], t)
        ids == SelectSeq(iter, Healthy)
    IN  [i \in 1..Len(ids) |-> reg[ids[i]]]

\* NodeRegistry::nodes_with_available_gpus
nodes_with_available_gpus(reg, iter, t, count) ==
    LET Enough(node) == available_gpus(node) >= count
    IN  SelectSeq(healthy_nodes(reg, iter, t), Enough)

\* Node::total_gpus
total_gpus(node) == Len(node.topology.gpus)

\* NodeRegistry::summary; iter is the order in which the HashMap yields its
\* values.
summary(reg, iter) ==
    LET Healthy(n) == reg[n].health = "Healthy"
        healthy == SelectSeq(iter, Healthy)
    IN  [total_nodes |-> Cardinality(Registered(reg)),
         healthy_nodes |-> Len(healthy),
         total_gpus |-> SumSeq([i \in 1..Len(iter) |-> total_gpus(reg[iter[i]])]),
         available_gpus |-> SumSeq([i \in 1..Len(iter) |-> available_gpus(reg[iter[i]])]),
         running_jobs |-> SumSeq([i \in 1..Len(iter) |-> Len(reg[iter[i]].running_jobs)])]

----------------------------------------------------------------------------
(* scheduler.rs: placement                                                 *)

\* HashMap::insert on a decision's allocations.
MapInsert(m, k, v) == [x \in DOMAIN m \cup {k} |-> IF x = k THEN v ELSE m[x]]

\* The first n GPUs of the node, allocated or not.
FirstGpuIds(node, n) ==
    LET first == Take(node.topology.gpus, n)
    IN  [i \in 1..Len(first) |-> first[i].device_id]

\* node.topology.gpus.iter().filter(|g| !g.allocated).take(n).map(|g| g.device_id)
FreeGpuIds(node, n) ==
    LET free == Take(SelectSeq(node.topology.gpus, Unallocated), n)
    IN  [i \in 1..Len(free) |-> free[i].device_id]

\* gang_schedule, first try: the first candidate with enough free GPUs.
SameNodeDecision(job, candidates, required_gpus) ==
    LET fits == {i \in 1..Len(candidates) : available_gpus(candidates[i]) >= required_gpus}
    IN  IF fits = {} THEN None
        ELSE LET first == CHOOSE i \in fits : \A k \in fits : i <= k
                 node == candidates[first]
             IN  Some([job_id |-> job.id,
                       allocations |-> MapInsert(<<>>, node.id, FreeGpuIds(node, required_gpus)),
                       gang_allocated |-> TRUE])

\* gang_schedule, second try: the greedy loop over the candidates.
RECURSIVE GreedyAllocate(_, _, _)
GreedyAllocate(candidates, remaining, allocations) ==
    IF candidates = <<>> \/ remaining = 0
    THEN [allocations |-> allocations, remaining |-> remaining]
    ELSE LET node == Head(candidates)
             available == available_gpus(node)
             to_allocate == Min(remaining, available)
         IN  GreedyAllocate(Tail(candidates), remaining - to_allocate,
                            MapInsert(allocations, node.id, FreeGpuIds(node, to_allocate)))

\* gang_schedule without its two shortage checks: whatever the greedy loop
\* gathered is returned as the decision.
gang_schedule_partial(job, candidates, required_gpus) ==
    LET same == IF config.prefer_same_node
                THEN SameNodeDecision(job, candidates, required_gpus)
                ELSE None
        greedy == GreedyAllocate(candidates, required_gpus, <<>>)
    IN  IF IsSome(same) THEN same
        ELSE Some([job_id |-> job.id,
                   allocations |-> greedy.allocations,
                   gang_allocated |-> TRUE])

\* gang_schedule asking for more free GPUs than the job requires.
gang_schedule_strict(job, candidates, required_gpus) ==
    LET total_available == SumSeq([i \in 1..Len(candidates) |-> available_gpus(candidates[i])])
        greedy == GreedyAllocate(candidates, required_gpus, <<>>)
    IN  IF total_available <= required_gpus THEN None
        ELSE IF greedy.remaining > 0 THEN None
        ELSE Some([job_id |-> job.id,
                   allocations |-> greedy.allocations,
                   gang_allocated |-> TRUE])

\* Scheduler::gang_schedule
gang_schedule(job, candidates, required_gpus) ==
    LET same == IF config.prefer_same_node
                THEN SameNodeDecision(job, candidates, required_gpus)
                ELSE None
        total_available == SumSeq([i \in 1..Len(candidates) |-> available_gpus(candidates[i])])
        greedy == GreedyAllocate(candidates, required_gpus, <<>>)
    IN  IF IsSome(same) THEN same
        ELSE IF total_available < required_gpus THEN None
        ELSE IF greedy.remaining > 0 THEN None
        ELSE Some([job_id |-> job.id,
                   allocations |-> greedy.allocations,
                   gang_allocated |-> TRUE])

\* Scheduler::spread_schedule
spread_schedule(job, candidates, required_gpus) ==
    gang_schedule(job, candidates, required_gpus)

\* schedule_cpu_job taking the first registered node, healthy or not.
schedule_cpu_job_any_node(job, iter) ==
    IF iter = <<>> THEN None
    ELSE Some([job_id |-> job.id,
               allocations |-> MapInsert(<<>>, iter[1], <<>>),
               gang_allocated |-> FALSE])

\* Scheduler::schedule_cpu_job
schedule_cpu_job(job, iter) ==
    LET healthy == healthy_nodes(nodes, iter, now)
    IN  IF healthy = <<>> THEN None
        ELSE Some([job_id |-> job.id,
                   allocations |-> MapInsert(<<>>, healthy[1].id, <<>>),
                   gang_allocated |-> FALSE])

\* Scheduler::try_schedule_job
try_schedule_job(job, iter) ==
    LET required_gpus == job.descriptor.gpu_count
        candidates == nodes_with_available_gpus(nodes, iter, now, 1)
    IN  IF required_gpus = 0 THEN schedule_cpu_job(job, iter)
        ELSE IF candidates = <<>> THEN None
        ELSE IF job.descriptor.gang_schedule
             THEN gang_schedule(job, candidates, required_gpus)
             ELSE spread_schedule(job, candidates, required_gpus)

----------------------------------------------------------------------------
(* scheduler.rs: the scheduler's calls                                     *)

\* SchedulerConfig: max_schedule_batch, prefer_same_node, job_timeout_secs
\* (0 = no timeout).
DefaultMaxScheduleBatch == 100
JobTimeoutSecs == 1
Configs ==
    {[max_schedule_batch |-> DefaultMaxScheduleBatch, prefer_same_node |-> TRUE,
      job_timeout_secs |-> JobTimeoutSecs],
     [max_schedule_batch |-> 1, prefer_same_node |-> FALSE, job_timeout_secs |-> 0]}

\* What a call returned: Ok or Err of a Result; for schedule_cycle the
\* decisions, and the jobs it tried to place in the order it tried them; for
\* cleanup_zombie_jobs the count.
Returned(ok) == [ok |-> ok, decisions |-> <<>>, attempted |-> <<>>, cleaned |-> 0]

\* A thread that is in no call of the scheduler.
NoCall == [pc |-> "idle", job_id |-> 0]

\* submit without its push to the pending queue.
submit_unqueued(job_id, descriptor) ==
    LET job == transition(NewJob(job_id, descriptor), "Queued", "Submitted to scheduler", now)
    IN  /\ jobs[job_id] = NoJob
        /\ \A j \in JobIds : j < job_id => jobs[j] /= NoJob
        /\ jobs' = [jobs EXCEPT ![job_id] = job]
        /\ ret' = Returned(TRUE)
        /\ UNCHANGED <<pending_queue, nodes, config, now>>

\* Scheduler::submit: a job made by Job::new, under the next id not used before.
submit(job_id, descriptor) ==
    LET job == transition(NewJob(job_id, descriptor), "Queued", "Submitted to scheduler", now)
    IN  /\ jobs[job_id] = NoJob
        /\ \A j \in JobIds : j < job_id => jobs[j] /= NoJob
        /\ jobs' = [jobs EXCEPT ![job_id] = job]
        /\ pending_queue' = MapInsert(pending_queue, job_id, descriptor.priority)
        /\ ret' = Returned(TRUE)
        /\ UNCHANGED <<nodes, config, now>>

\* PriorityQueue::remove
QueueRemove(queue, job_id) == [x \in DOMAIN queue \ {job_id} |-> queue[x]]

\* cancel without its match on the job's state: any stored job is cancelled.
cancel_any(job_id, reason) ==
    /\ IF jobs[job_id] = NoJob
       THEN /\ ret' = Returned(FALSE)
            /\ UNCHANGED <<jobs, pending_queue>>
       ELSE /\ jobs' = [jobs EXCEPT ![job_id] = transition(@, "Cancelled", reason, now)]
            /\ pending_queue' = QueueRemove(pending_queue, job_id)
            /\ ret' = Returned(TRUE)
    /\ UNCHANGED <<nodes, config, now>>

\* Scheduler::cancel
cancel(job_id, reason) ==
    /\ IF jobs[job_id] = NoJob
       THEN /\ ret' = Returned(FALSE)
            /\ UNCHANGED <<jobs, pending_queue>>
       ELSE IF jobs[job_id].state \in {"Pending", "Queued", "Scheduled"}
       THEN /\ jobs' = [jobs EXCEPT ![job_id] = transition(@, "Cancelled", reason, now)]
            /\ pending_queue' = QueueRemove(pending_queue, job_id)
            /\ ret' = Returned(TRUE)
       ELSE IF jobs[job_id].state = "Running"
       THEN /\ jobs' = [jobs EXCEPT ![job_id] = transition(@, "Cancelled", reason, now)]
            /\ ret' = Returned(TRUE)
            /\ UNCHANGED pending_queue
       ELSE /\ ret' = Returned(FALSE)
            /\ UNCHANGED <<jobs, pending_queue>>
    /\ UNCHANGED <<nodes, config, now>>

\* The body of schedule_cycle's loop for one job: the job once a decision is
\* applied to it.
ApplyDecision(job, decision) ==
    [transition(job, "Scheduled", "Resources allocated", now) EXCEPT
        !.allocated_nodes = DOMAIN decision.allocations,
        !.allocated_gpus = decision.allocations]

\* The jobs schedule_cycle tries: the first max_schedule_batch of the queue's
\* iteration order.
Batch(queue_iter) == Take(queue_iter, config.max_schedule_batch)

\* Scheduler::schedule_cycle; queue_iter is the order in which
\* PriorityQueue::iter yields the queue, node_iter the order in which the
\* registry's HashMap yields the nodes.
schedule_cycle(queue_iter, node_iter) ==
    LET batch == Batch(queue_iter)
        Decision(job_id) == try_schedule_job(jobs[job_id], node_iter)
        Placed(job_id) == jobs[job_id] /= NoJob /\ IsSome(Decision(job_id))
        to_remove == SelectSeq(batch, Placed)
        decisions == [i \in 1..Len(to_remove) |-> Unwrap(Decision(to_remove[i]))]
    IN  /\ jobs' = [j \in JobIds |->
                      IF j \in Range(to_remove)
                      THEN ApplyDecision(jobs[j], Unwrap(Decision(j)))
                      ELSE jobs[j]]
        /\ pending_queue' = [x \in DOMAIN pending_queue \ Range(to_remove) |-> pending_queue[x]]
        /\ ret' = [Returned(TRUE) EXCEPT
                      !.decisions = decisions, !.attempted = batch]
        /\ UNCHANGED <<nodes, config, now>>

\* Scheduler::mark_job_started
mark_job_started(job_id) ==
    /\ IF jobs[job_id] /= NoJob
       THEN /\ jobs' = [jobs EXCEPT ![job_id] = transition(@, "Running", "Job started on node", now)]
            /\ ret' = Returned(TRUE)
       ELSE /\ ret' = Returned(FALSE)
            /\ UNCHANGED jobs
    /\ UNCHANGED <<pending_queue, nodes, config, now>>

\* Scheduler::mark_job_completed
mark_job_completed(job_id, success, message) ==
    LET new_state == IF success THEN "Completed" ELSE "Failed"
    IN  /\ IF jobs[job_id] /= NoJob
           THEN /\ jobs' = [jobs EXCEPT ![job_id] = transition(@, new_state, message, now)]
                /\ ret' = Returned(TRUE)
           ELSE /\ ret' = Returned(FALSE)
                /\ UNCHANGED jobs
        /\ UNCHANGED <<pending_queue, nodes, config, now>>

\* `as u64` on an i64 count of seconds: the value modulo 2^SecondsBits.
as_u64(seconds) == (seconds + 2 ^ SecondsBits) % (2 ^ SecondsBits)

\* The loop body without its skip of the jobs that are not Running.
ReapedAnyState(job) ==
    LET any_dead == \E node_id \in job.allocated_nodes : ~is_node_healthy(nodes, node_id, now)
    IN  IF job = NoJob THEN job
        ELSE IF any_dead THEN transition(job, "Failed", "Allocated node(s) became unhealthy", now)
        ELSE job

\* cleanup_zombie_jobs' loop body: what becomes of one job.
Reaped(job) ==
    LET elapsed == as_u64(now - Unwrap(job.start_time))
        timed_out ==
            /\ config.job_timeout_secs > 0
            /\ IsSome(job.start_time)
            /\ elapsed > config.job_timeout_secs
        any_dead == \E node_id \in job.allocated_nodes : ~is_node_healthy(nodes, node_id, now)
    IN  IF job.state /= "Running" THEN job
        ELSE IF timed_out THEN transition(job, "Timeout", "Job exceeded timeout", now)
        ELSE IF any_dead THEN transition(job, "Failed", "Allocated node(s) became unhealthy", now)
        ELSE job

\* Scheduler::cleanup_zombie_jobs
cleanup_zombie_jobs ==
    /\ jobs' = [j \in JobIds |-> Reaped(jobs[j])]
    /\ ret' = [Returned(TRUE) EXCEPT
                  !.cleaned = Cardinality({j \in JobIds : Reaped(jobs[j]) /= jobs[j]})]
    /\ UNCHANGED <<pending_queue, nodes, config, now>>

----------------------------------------------------------------------------
(* node.rs: the registry's calls                                           *)

\* NodeRegistry::register
register(node_id, topology) ==
    /\ nodes' = [nodes EXCEPT ![node_id] = NewNode(node_id, topology, now)]
    /\ ret' = Returned(TRUE)
    /\ UNCHANGED <<jobs, pending_queue, config, now>>

\* NodeRegistry::deregister
deregister(node_id) ==
    /\ nodes' = [nodes EXCEPT ![node_id] = NoNode]
    /\ ret' = Returned(TRUE)
    /\ UNCHANGED <<jobs, pending_queue, config, now>>

\* NodeRegistry::update and Node::heartbeat
update(node_id, topology) ==
    /\ IF nodes[node_id] /= NoNode
       THEN /\ nodes' = [nodes EXCEPT ![node_id] =
                           [@ EXCEPT !.topology = topology, !.last_heartbeat = now]]
            /\ ret' = Returned(TRUE)
       ELSE /\ ret' = Returned(FALSE)
            /\ UNCHANGED nodes
    /\ UNCHANGED <<jobs, pending_queue, config, now>>

\* Between two calls the wall clock comes to read another second: time
\* passes, or the clock is set back (Utc::now() is not monotonic).
Tick ==
    /\ \E t \in 0..MaxTime : t /= now /\ now' = t
    /\ ret' = Returned(TRUE)
    /\ UNCHANGED <<jobs, pending_queue, nodes, config>>

----------------------------------------------------------------------------
(* The scheduler: Scheduler::new(nodes, config) over a registry in which    *)
(* some of the nodes have registered already.                              *)

SchedInit ==
    /\ jobs = [j \in JobIds |-> NoJob]
    /\ pending_queue = <<>>
    /\ \E up \in SUBSET NodeIds :
           nodes = [n \in NodeIds |->
                      IF n \in up THEN NewNode(n, Topology(NodeGpuCount(n)), 0) ELSE NoNode]
    /\ config \in Configs
    /\ now = 0
    /\ ret = Returned(TRUE)
    /\ calls = 0
    /\ threads = [t \in ThreadIds |-> NoCall]
    /\ jobs_lock = 0
    /\ queue_lock = 0

\* One more call, while the budget of calls lasts. The scheduler shares no
\* state with the ring or the engine.
Call ==
    /\ calls < MaxCalls
    /\ calls' = calls + 1
    /\ UNCHANGED <<threads, jobs_lock, queue_lock>>
    /\ UNCHANGED <<ringVars, engineVars, moreVars>>

Submit == \E j \in JobIds, d \in Descriptors : Call /\ submit(j, d)
Cancel == \E j \in JobIds : Call /\ cancel(j, "User requested cancellation")
ScheduleCycle ==
    \E queue_iter \in Orders(DOMAIN pending_queue), node_iter \in Orders(Registered(nodes)) :
        Call /\ schedule_cycle(queue_iter, node_iter)
MarkJobStarted == \E j \in JobIds : Call /\ mark_job_started(j)
MarkJobCompleted ==
    \E j \in JobIds, success \in BOOLEAN :
        Call /\ mark_job_completed(j, success, "Job finished")
CleanupZombieJobs == Call /\ cleanup_zombie_jobs
Register == \E n \in NodeIds : Call /\ register(n, Topology(NodeGpuCount(n)))
Deregister == \E n \in NodeIds : Call /\ deregister(n)
Update == \E n \in NodeIds : Call /\ update(n, Topology(NodeGpuCount(n)))
TimePasses == Call /\ Tick

Next ==
    \/ Submit
    \/ Cancel
    \/ ScheduleCycle
    \/ MarkJobStarted
    \/ MarkJobCompleted
    \/ CleanupZombieJobs
    \/ Register
    \/ Deregister
    \/ Update
    \/ TimePasses


----------------------------------------------------------------------------
(* Claims about the scheduler.                                             *)

\* Some schedule_cycle call, whatever the iteration orders.
ScheduleCycleStep ==
    \E queue_iter \in Orders(DOMAIN pending_queue), node_iter \in Orders(Registered(nodes)) :
        schedule_cycle(queue_iter, node_iter)

\* The jobs in a live state.
LiveJobs == {j \in JobIds : jobs[j].state \in {"Scheduled", "Running"}}

\* The live jobs that list GPU device_id of node n in their allocated_gpus.
Owners(n, device_id) ==
    {j \in LiveJobs :
        /\ n \in DOMAIN jobs[j].allocated_gpus
        /\ device_id \in Range(jobs[j].allocated_gpus[n])}

\* C1: once a job's state is Completed, Failed, Cancelled or Timeout, no call
\* changes it again.
C1_TerminalAbsorbing ==
    [][\A j \in JobIds :
          jobs[j].state \in TerminalStates => jobs'[j].state = jobs[j].state]_vars

\* C2: a GPU of a registered node is marked allocated if and only if exactly
\* one live job (Scheduled or Running) lists it; no GPU is listed by two live
\* jobs.
C2_GpuOwnershipExclusive ==
    \A n \in Registered(nodes) :
        \A i \in 1..Len(nodes[n].topology.gpus) :
            LET g == nodes[n].topology.gpus[i]
            IN  /\ g.allocated <=> Cardinality(Owners(n, g.device_id)) = 1
                /\ Cardinality(Owners(n, g.device_id)) <= 1

\* The GPUs a decision lists, summed over its nodes.
DecisionGpus(d) ==
    LET RECURSIVE Total(_)
        Total(S) == IF S = {} THEN 0
                    ELSE LET n == CHOOSE n \in S : TRUE
                         IN  Len(d.allocations[n]) + Total(S \ {n})
    IN  Total(DOMAIN d.allocations)

\* The free GPUs of the healthy nodes.
FreeGpusOfHealthyNodes ==
    LET RECURSIVE Total(_)
        Total(S) == IF S = {} THEN 0
                    ELSE LET n == CHOOSE n \in S : TRUE
                         IN  Cardinality({i \in 1..Len(nodes[n].topology.gpus) :
                                             ~nodes[n].topology.gpus[i].allocated})
                             + Total(S \ {n})
    IN  Total({n \in Registered(nodes) :
                 nodes[n].health = "Healthy"
                 /\ now - nodes[n].last_heartbeat <= heartbeat_timeout_seconds})

\* The jobs the decisions returned by the last schedule_cycle are for.
Decided == {ret.decisions[i].job_id : i \in 1..Len(ret.decisions)}

EdgeOf(j) ==
    LET from == jobs[j].state
        to == jobs[j].state'
    IN  \/ /\ from = "Absent" /\ to = "Queued"
           /\ \E d \in Descriptors : submit(j, d)
        \/ /\ from = "Queued" /\ to = "Scheduled"
           /\ ScheduleCycleStep
        \/ /\ from = "Scheduled" /\ to = "Running"
           /\ mark_job_started(j)
        \/ /\ from = "Running" /\ to \in {"Completed", "Failed"}
           /\ \E success \in BOOLEAN : mark_job_completed(j, success, "Job finished")
        \/ /\ from = "Running" /\ to \in {"Timeout", "Failed"}
           /\ cleanup_zombie_jobs
        \/ /\ from \in {"Pending", "Queued", "Scheduled", "Running"} /\ to = "Cancelled"
           /\ cancel(j, "User requested cancellation")

\* C7: every change of a job's state follows an edge of the state machine,
\* made by the call the edge belongs to.
C7_TransitionsFollowEdges ==
    [][\A j \in JobIds : jobs[j].state' /= jobs[j].state => EdgeOf(j)]_vars

\* C8: mark_job_started on a job that is not Scheduled, and mark_job_completed
\* on a job that is not Running, return Err and leave the job as it was.
C8_InvalidTransitionRejected ==
    [][\A j \in JobIds :
          /\ (mark_job_started(j) /\ jobs[j].state /= "Scheduled")
                => (~ret'.ok /\ jobs'[j] = jobs[j])
          /\ \A success \in BOOLEAN :
                (mark_job_completed(j, success, "Job finished") /\ jobs[j].state /= "Running")
                    => (~ret'.ok /\ jobs'[j] = jobs[j])]_vars

\* Two queued jobs a (the lower priority) and b (the higher), each of which
\* the free GPUs suffice for, but not both.
Contention(a, b) ==
    /\ DOMAIN pending_queue = {a, b}
    /\ pending_queue[a] < pending_queue[b]
    /\ jobs[a].descriptor.gpu_count >= 1
    /\ jobs[b].descriptor.gpu_count >= 1
    /\ jobs[a].descriptor.gpu_count <= FreeGpusOfHealthyNodes
    /\ jobs[b].descriptor.gpu_count <= FreeGpusOfHealthyNodes
    /\ jobs[a].descriptor.gpu_count + jobs[b].descriptor.gpu_count > FreeGpusOfHealthyNodes

\* C9: when the free GPUs suffice for only one of two queued jobs, a cycle
\* leaves the higher-priority job Scheduled and the other Queued and in the
\* queue, whatever the order they were submitted in.
C9_PriorityUnderContention ==
    [][\A a, b \in JobIds :
          (Contention(a, b) /\ ScheduleCycleStep)
              => /\ jobs'[b].state = "Scheduled"
                 /\ jobs'[a].state = "Queued"
                 /\ a \in DOMAIN pending_queue']_vars

\* C10: a cycle tries the queued jobs in descending priority: no job is tried
\* before a job of higher priority, no job left untried has a higher priority
\* than a job tried, and at most max_schedule_batch decisions are returned.
C10_CycleInPriorityOrder ==
    LET tried == ret.attempted
        Priority(j) == jobs[j].descriptor.priority
    IN  /\ \A x, y \in 1..Len(tried) : x < y => Priority(tried[x]) >= Priority(tried[y])
        /\ \A q \in DOMAIN pending_queue \ Range(tried) :
              \A x \in 1..Len(tried) : Priority(tried[x]) >= Priority(q)
        /\ Len(ret.decisions) <= config.max_schedule_batch

\* C14: cancel on a job in a terminal state, or on an unknown job id, returns
\* Err and changes neither the job (state, message, end_time) nor the pending
\* queue.
C14_CancelTerminalRejected ==
    [][\A j \in JobIds :
          (/\ jobs[j].state \in TerminalStates \cup {"Absent"}
           /\ cancel(j, "User requested cancellation"))
              => /\ ~ret'.ok
                 /\ jobs' = jobs
                 /\ pending_queue' = pending_queue]_vars

\* C14 happens: every job id is stored and every node registered, so that
\* the call that returned Err is a cancel, and a job stands Cancelled with the
\* message and end_time of its first cancel.
C14_Witness ==
    /\ ~ret.ok
    /\ \A j \in JobIds : jobs[j] /= NoJob
    /\ \A n \in NodeIds : nodes[n] /= NoNode
    /\ \E j \in JobIds :
          /\ jobs[j].state = "Cancelled"
          /\ jobs[j].message = "User requested cancellation"
          /\ IsSome(jobs[j].end_time)

\* C15: cancel on a job that is Pending, Queued, Scheduled or Running returns
\* Ok and leaves the job Cancelled, out of the pending queue (which shrinks by
\* one if the job was in it), with no GPU of any node allocated to it.
C15_CancelLiveJob ==
    [][\A j \in JobIds :
          (/\ cancel(j, "User requested cancellation")
           /\ jobs[j].state \in {"Pending", "Queued", "Scheduled", "Running"})
              => /\ ret'.ok
                 /\ jobs'[j].state = "Cancelled"
                 /\ j \notin DOMAIN pending_queue'
                 /\ Cardinality(DOMAIN pending_queue') =
                        Cardinality(DOMAIN pending_queue)
                        - (IF j \in DOMAIN pending_queue THEN 1 ELSE 0)
                 /\ \A n \in Registered(nodes') :
                       \A i \in 1..Len(nodes'[n].topology.gpus) :
                           nodes'[n].topology.gpus[i].allocated_job_id /= Some(j)]_vars

DecidedNext == {ret'.decisions[i].job_id : i \in 1..Len(ret'.decisions)}

\* C17, as claimed: a Queued job of the pending queue that requires exactly
\* the sum of the free GPUs of the healthy nodes gets a decision in the next
\* schedule_cycle, and one that requires that sum plus one gets none.
C17_CapacityBoundaryAnyJob ==
    [][ScheduleCycleStep =>
          \A j \in DOMAIN pending_queue :
              LET k == jobs[j].descriptor.gpu_count
              IN  (jobs[j].state = "Queued" /\ k >= 1) =>
                      /\ k = FreeGpusOfHealthyNodes => j \in DecidedNext
                      /\ k = FreeGpusOfHealthyNodes + 1 => j \notin DecidedNext]_vars

\* C17, amended: a Queued job that the schedule_cycle tries (one of the first
\* max_schedule_batch jobs the queue yields) and that requires exactly the sum
\* of the free GPUs of the healthy nodes gets a decision, with prefer_same_node
\* on or off; one that requires that sum plus one gets none.
C17_CapacityBoundary ==
    [][ScheduleCycleStep =>
          \A j \in Range(ret'.attempted) :
              LET k == jobs[j].descriptor.gpu_count
              IN  (jobs[j].state = "Queued" /\ k >= 1) =>
                      /\ k = FreeGpusOfHealthyNodes => j \in DecidedNext
                      /\ k = FreeGpusOfHealthyNodes + 1 => j \notin DecidedNext]_vars

\* C17 happens: with prefer_same_node on, a job that requires the 5 GPUs the
\* two healthy nodes have free between them has its decision, over both nodes.
C17_Witness ==
    /\ config.prefer_same_node
    /\ FreeGpusOfHealthyNodes = 5
    /\ \E i \in 1..Len(ret.decisions) :
          /\ jobs[ret.decisions[i].job_id].descriptor.gpu_count = 5
          /\ DecisionGpus(ret.decisions[i]) = 5
          /\ DOMAIN ret.decisions[i].allocations = NodeIds

\* The GPU models the registered nodes report.
RegisteredModels ==
    UNION {{nodes[n].topology.gpus[i].device_name :
                i \in 1..Len(nodes[n].topology.gpus)} : n \in Registered(nodes)}

\* C19: a Queued job that names required GPU models none of which a
\* registered GPU has gets no decision from a schedule_cycle and stays Queued
\* and in the pending queue.
C19_UnsatisfiableStaysQueued ==
    [][ScheduleCycleStep =>
          \A j \in DOMAIN pending_queue :
              (/\ jobs[j].state = "Queued"
               /\ jobs[j].descriptor.required_gpu_models /= {}
               /\ jobs[j].descriptor.required_gpu_models \cap RegisteredModels = {})
                  => /\ j \notin DecidedNext
                     /\ jobs'[j].state = "Queued"
                     /\ j \in DOMAIN pending_queue']_vars

\* C18: in a schedule_cycle the jobs that get a decision are exactly the jobs
\* that go from Queued to Scheduled, and they leave the pending queue, which
\* shrinks by the number of decisions; a Queued job of the queue without a
\* decision stays Queued, in the queue with its priority, and with no
\* allocation; a job that was not in the queue is not modified.
C18_CycleEffect ==
    [][ScheduleCycleStep =>
          LET decided == {ret'.decisions[i].job_id : i \in 1..Len(ret'.decisions)}
          IN  /\ \A j \in JobIds :
                    j \in decided <=>
                        (jobs[j].state = "Queued" /\ jobs'[j].state = "Scheduled")
              /\ \A j \in decided :
                    j \in DOMAIN pending_queue /\ j \notin DOMAIN pending_queue'
              /\ Cardinality(DOMAIN pending_queue') =
                    Cardinality(DOMAIN pending_queue) - Len(ret'.decisions)
              /\ \A j \in DOMAIN pending_queue \ decided :
                    jobs[j].state = "Queued" =>
                        /\ jobs'[j].state = "Queued"
                        /\ j \in DOMAIN pending_queue'
                        /\ pending_queue'[j] = pending_queue[j]
                        /\ jobs'[j].allocated_nodes = {}
                        /\ jobs'[j].allocated_gpus = <<>>
              /\ \A j \in JobIds \ DOMAIN pending_queue : jobs'[j] = jobs[j]]_vars

\* C20: cleanup_zombie_jobs moves a Running job to Timeout if and only if
\* job_timeout_secs > 0 and now - start_time, a signed number of seconds, is
\* greater than job_timeout_secs; so never with job_timeout_secs = 0, and
\* never for a job whose start_time is not earlier than now.
C20_TimeoutArm ==
    [][cleanup_zombie_jobs =>
          \A j \in JobIds :
              (jobs[j].state = "Running" /\ IsSome(jobs[j].start_time)) =>
                  (jobs'[j].state = "Timeout" <=>
                      /\ config.job_timeout_secs > 0
                      /\ now - Unwrap(jobs[j].start_time) > config.job_timeout_secs)]_vars

\* The timeout arm of cleanup_zombie_jobs takes this job.
TimeoutArmTaken(job) ==
    /\ config.job_timeout_secs > 0
    /\ IsSome(job.start_time)
    /\ as_u64(now - Unwrap(job.start_time)) > config.job_timeout_secs

\* Node n is not healthy: deregistered, of a health other than Healthy, or
\* with a last heartbeat older than the heartbeat timeout.
NotHealthy(n) ==
    \/ nodes[n] = NoNode
    \/ nodes[n].health /= "Healthy"
    \/ now - nodes[n].last_heartbeat > heartbeat_timeout_seconds

Occurrences(s, x) == Cardinality({i \in 1..Len(s) : s[i] = x})

\* C23: after a schedule_cycle that returns a decision allocating job j on
\* node n, j is exactly once in the running_jobs of node n in the registry.
C23_DecisionInRunningJobs ==
    [][ScheduleCycleStep =>
          \A i \in 1..Len(ret'.decisions) :
              \A n \in DOMAIN ret'.decisions[i].allocations :
                  /\ nodes'[n] /= NoNode
                  /\ Occurrences(nodes'[n].running_jobs, ret'.decisions[i].job_id) = 1]_vars

HealthyNodeIds ==
    {n \in Registered(nodes) :
        nodes[n].health = "Healthy"
        /\ now - nodes[n].last_heartbeat <= heartbeat_timeout_seconds}

\* What C31 says of the decision of a step for CPU-only job j.
CpuDecisionFor(j) ==
    /\ j \in DecidedNext <=> HealthyNodeIds /= {}
    /\ \A i \in 1..Len(ret'.decisions) :
          LET d == ret'.decisions[i]
          IN  d.job_id = j =>
                /\ Cardinality(DOMAIN d.allocations) = 1
                /\ DOMAIN d.allocations \subseteq HealthyNodeIds
                /\ \A n \in DOMAIN d.allocations : d.allocations[n] = <<>>
                /\ ~d.gang_allocated
    /\ nodes' = nodes

\* C31, as claimed: a Queued job of the pending queue with gpu_count = 0 gets
\* a decision from schedule_cycle if and only if some node is healthy; the
\* decision names one node, healthy, with no GPU, gang_allocated false, and
\* no GPU's allocation changes.
C31_CpuOnlyPlacementAnyJob ==
    [][ret'.attempted /= <<>> =>
          \A j \in DOMAIN pending_queue :
              (jobs[j].state = "Queued" /\ jobs[j].descriptor.gpu_count = 0) =>
                  CpuDecisionFor(j)]_vars

\* C31, amended: the same of a Queued job with gpu_count = 0 that the
\* schedule_cycle tries (one of the first max_schedule_batch jobs the queue
\* yields).
C31_CpuOnlyPlacement ==
    [][\A j \in Range(ret'.attempted) :
          (jobs[j].state = "Queued" /\ jobs[j].descriptor.gpu_count = 0) =>
              CpuDecisionFor(j)]_vars

\* C31 happens: a schedule_cycle has returned the decision of a CPU-only
\* job, on one healthy node and with no GPU.
C31_Witness ==
    \E i \in 1..Len(ret.decisions) :
        LET d == ret.decisions[i]
        IN  /\ jobs[d.job_id].descriptor.gpu_count = 0
            /\ jobs[d.job_id].state = "Scheduled"
            /\ \E n \in HealthyNodeIds : d.allocations = MapInsert(<<>>, n, <<>>)

----------------------------------------------------------------------------
(* zenith-runtime-cpu/src/buffer.rs: the SPSC ring.                        *)
(* (sdk-python/src/buffer.rs is the same algorithm over Option slots.)     *)
(*                                                                         *)
(* Every load and store of head and tail, and the start and the end of     *)
(* every slot access, is a step of its own. The Release store of a counter *)
(* and the Acquire load of it by the other thread order the slot access    *)
(* before the store and after the load, which is the order of the steps    *)
(* here.                                                                   *)

\* usize, WordBits wide.
Word == 2 ^ WordBits
wrapping_add(a, b) == (a + b) % Word
saturating_sub(a, b) == IF a >= b THEN a - b ELSE 0
wrapping_sub(a, b) == (a - b + Word) % Word

\* The bitwise and of two naturals (index = position & mask).
RECURSIVE BitAnd(_, _)
BitAnd(a, b) ==
    IF a = 0 \/ b = 0 THEN 0
    ELSE (a % 2) * (b % 2) + 2 * BitAnd(a \div 2, b \div 2)

\* A capacity taken as asked for, not rounded.
not_rounded(n) == n

\* usize::next_power_of_two
next_power_of_two(n) ==
    LET RECURSIVE Up(_)
        Up(p) == IF p >= n THEN p ELSE Up(2 * p)
    IN  Up(1)

\* A slot of the buffer: MaybeUninit<T>.
Uninit == [init |-> FALSE, value |-> 0]
Written(item) == [init |-> TRUE, value |-> item]

\* SpscRingBuffer::new
SpscRingBuffer_new(capacity) ==
    LET cap == next_power_of_two(capacity)
    IN  [capacity |-> cap,
         mask |-> cap - 1,
         head |-> 0,
         tail |-> 0,
         buffer |-> [i \in 0..(cap - 1) |-> Uninit]]

\* try_push's test: head.wrapping_sub(tail) >= self.capacity, with the test
\* that admits one item too many and the test that refuses the last free
\* slot before it.
full_above(head, tail, capacity) == wrapping_sub(head, tail) > capacity
full_early(head, tail, capacity) == wrapping_sub(head, tail) >= capacity - 1
full(head, tail, capacity) == wrapping_sub(head, tail) >= capacity

\* try_pop's test: tail == head, with the test that takes the ring for empty
\* only when tail is past head before it.
empty_past(tail, head) == tail > head
empty(tail, head) == tail = head

\* A thread outside try_push / try_pop, before its first call; ret is what
\* its last call returned.
Idle == [pc |-> "idle", pos |-> 0, item |-> 0, ret |-> <<>>]

\* A thread back from a call with its return value: <<"Ok">> or
\* <<"Err", item>> from try_push, <<"Some", item>> or <<"None">> from try_pop.
Returns(value) == [Idle EXCEPT !.ret = value]

\* try_push, step 1: let head = self.head.load(Relaxed). The item offered is
\* the next of 1..MaxItems (a rejected item is offered again).
PushLoadHead ==
    /\ producer.pc = "idle"
    /\ Len(pushed) < MaxItems
    /\ producer' = [pc |-> "load_tail", pos |-> ring.head, item |-> Len(pushed) + 1,
                    ret |-> <<>>]
    /\ UNCHANGED <<ring, consumer, pushed, popped, race>>

\* try_push, step 2: let tail = self.tail.load(Acquire) and the test for full;
\* a full ring returns Err(item).
PushLoadTail ==
    /\ producer.pc = "load_tail"
    /\ producer' = IF full(producer.pos, ring.tail, ring.capacity)
                   THEN Returns(<<"Err", producer.item>>)
                   ELSE [producer EXCEPT !.pc = "write"]
    /\ UNCHANGED <<ring, consumer, pushed, popped, race>>

\* try_push, step 3: the write of the slot at head & mask begins.
PushWriteBegin ==
    /\ producer.pc = "write"
    /\ producer' = [producer EXCEPT !.pc = "writing"]
    /\ race' = (race \/ (/\ consumer.pc = "reading"
                         /\ BitAnd(consumer.pos, ring.mask) = BitAnd(producer.pos, ring.mask)))
    /\ UNCHANGED <<ring, consumer, pushed, popped>>

\* try_push, step 4: the write of the slot ends.
PushWriteEnd ==
    /\ producer.pc = "writing"
    /\ ring' = [ring EXCEPT !.buffer[BitAnd(producer.pos, ring.mask)] = Written(producer.item)]
    /\ producer' = [producer EXCEPT !.pc = "store_head"]
    /\ UNCHANGED <<consumer, pushed, popped, race>>

\* try_push, step 5: self.head.store(head.wrapping_add(1), Release); Ok(()).
PushStoreHead ==
    /\ producer.pc = "store_head"
    /\ ring' = [ring EXCEPT !.head = wrapping_add(producer.pos, 1)]
    /\ pushed' = Append(pushed, producer.item)
    /\ producer' = Returns(<<"Ok">>)
    /\ UNCHANGED <<consumer, popped, race>>

\* try_pop, step 1: let tail = self.tail.load(Relaxed).
PopLoadTail ==
    /\ consumer.pc = "idle"
    /\ Len(popped) < MaxItems
    /\ consumer' = [pc |-> "load_head", pos |-> ring.tail, item |-> 0, ret |-> <<>>]
    /\ UNCHANGED <<ring, producer, pushed, popped, race>>

\* try_pop, step 2: let head = self.head.load(Acquire) and the test for
\* empty; an empty ring returns None.
PopLoadHead ==
    /\ consumer.pc = "load_head"
    /\ consumer' = IF empty(consumer.pos, ring.head)
                   THEN Returns(<<"None">>)
                   ELSE [consumer EXCEPT !.pc = "read"]
    /\ UNCHANGED <<ring, producer, pushed, popped, race>>

\* try_pop, step 3: the read of the slot at tail & mask begins.
PopReadBegin ==
    /\ consumer.pc = "read"
    /\ consumer' = [consumer EXCEPT !.pc = "reading"]
    /\ race' = (\/ race
                \/ ~ring.buffer[BitAnd(consumer.pos, ring.mask)].init
                \/ /\ producer.pc = "writing"
                   /\ BitAnd(producer.pos, ring.mask) = BitAnd(consumer.pos, ring.mask))
    /\ UNCHANGED <<ring, producer, pushed, popped>>

\* try_pop, step 4: assume_init_read ends: the item is moved out of the slot.
\* Reading a slot that holds no item yields whatever the memory holds.
PopReadEnd ==
    /\ consumer.pc = "reading"
    /\ LET index == BitAnd(consumer.pos, ring.mask)
           slot == ring.buffer[index]
       IN  /\ \E item \in IF slot.init THEN {slot.value} ELSE 0..MaxItems :
                  consumer' = [consumer EXCEPT !.pc = "store_tail", !.item = item]
           /\ ring' = [ring EXCEPT !.buffer[index] = Uninit]
    /\ UNCHANGED <<producer, pushed, popped, race>>

\* try_pop, step 5: self.tail.store(tail.wrapping_add(1), Release); Some(item).
PopStoreTail ==
    /\ consumer.pc = "store_tail"
    /\ ring' = [ring EXCEPT !.tail = wrapping_add(consumer.pos, 1)]
    /\ popped' = Append(popped, consumer.item)
    /\ consumer' = Returns(<<"Some", consumer.item>>)
    /\ UNCHANGED <<producer, pushed, race>>

\* A ring made by SpscRingBuffer::new(capacity), shared by one producer thread
\* and one consumer thread (test_spsc_concurrent).
RingInit ==
    /\ \E capacity \in 1..MaxCapacity : ring = SpscRingBuffer_new(capacity)
    /\ producer = Idle
    /\ consumer = Idle
    /\ pushed = <<>>
    /\ popped = <<>>
    /\ race = FALSE

\* No thread uses the ring.
RingUnused ==
    /\ ring = SpscRingBuffer_new(1)
    /\ producer = Idle
    /\ consumer = Idle
    /\ pushed = <<>>
    /\ popped = <<>>
    /\ race = FALSE

----------------------------------------------------------------------------
(* core/src/engine.rs and core/src/wasm_host.rs: the engine's consumer     *)
(* thread and its plugin chain.                                            *)

\* What a plugin module can be: with or without an on_event export of type
\* (i32, i64) -> i32.
Plugins == {[exports |-> TRUE], [exports |-> FALSE]}

\* What a call of an exported on_event can do: return an i32, or trap.
Calls == {[trap |-> FALSE, res |-> 0], [trap |-> FALSE, res |-> 1],
          [trap |-> FALSE, res |-> -1], [trap |-> TRUE, res |-> 0]}
\* A plugin without the export is not called.
NotCalled == [trap |-> FALSE, res |-> 0]

\* Result<bool>
Ok(value) == [ok |-> TRUE, value |-> value]
Err == [ok |-> FALSE, value |-> FALSE]

\* on_event with a missing export taken as a rejection.
on_event_missing_rejects(plugin, call) ==
    IF plugin.exports
    THEN IF call.trap THEN Err ELSE Ok(call.res /= 0)
    ELSE Ok(FALSE)

\* on_event with a trap taken as a rejection.
on_event_trap_rejects(plugin, call) ==
    IF plugin.exports
    THEN IF call.trap THEN Ok(FALSE) ELSE Ok(call.res /= 0)
    ELSE Ok(TRUE)

\* WasmPlugin::on_event; call is what the exported function does when called.
on_event(plugin, call) ==
    IF plugin.exports
    THEN IF call.trap THEN Err ELSE Ok(call.res /= 0)
    ELSE Ok(TRUE)

\* The consumer thread before its first look at the running flag.
ChainStart == [pc |-> "loop", event |-> 0, index |-> 0, allowed |-> TRUE, results |-> <<>>]

\* No verdict yet.
NoVerdict == [event |-> 0, dropped |-> FALSE, results |-> <<>>]

\* ZenithEngine::load_plugin: waits for the plugin list's lock, which the
\* consumer holds while it runs the chain.
LoadPlugin ==
    /\ Len(plugins) < MaxPlugins
    /\ chain.pc /= "chain"
    /\ \E plugin \in Plugins : plugins' = Append(plugins, plugin)
    /\ UNCHANGED <<running, events, published, chain, verdict>>

\* zenith_publish: an event with the next seq_no is pushed to the buffer.
Publish ==
    /\ published < MaxEvents
    /\ published' = published + 1
    /\ events' = Append(events, published + 1)
    /\ UNCHANGED <<plugins, running, chain, verdict>>

\* ZenithEngine::shutdown
Shutdown ==
    /\ running
    /\ running' = FALSE
    /\ UNCHANGED <<plugins, events, published, chain, verdict>>

\* A loop that does not look at the flag.
while_true(flag) == "pop"

\* while running.load(Relaxed): into the loop body, or out of the loop.
while_running(flag) == IF flag THEN "pop" ELSE "stopped"

\* The consumer loop's test: while running.load(Relaxed).
ConsumerCheckRunning ==
    /\ chain.pc = "loop"
    /\ chain' = [chain EXCEPT !.pc = while_running(running)]
    /\ UNCHANGED <<plugins, running, events, published, verdict>>

\* thread::park with no timeout: the thread sleeps until it is unparked, and
\* nothing in the engine unparks the consumer.
park == "parked"

\* thread::park_timeout(Duration::from_micros(10)): the thread wakes after the
\* timeout at the latest, and the while loop tests the flag again.
park_timeout == "loop"

\* buffer.pop(): an event, or None and park_timeout.
ConsumerPop ==
    /\ chain.pc = "pop"
    /\ IF events /= <<>>
       THEN /\ chain' = [chain EXCEPT !.pc = "lock", !.event = Head(events)]
            /\ events' = Tail(events)
       ELSE /\ chain' = [chain EXCEPT !.pc = park_timeout]
            /\ UNCHANGED events
    /\ UNCHANGED <<plugins, running, published, verdict>>

\* plugins.lock().unwrap(); let mut allowed = true
ConsumerLock ==
    /\ chain.pc = "lock"
    /\ chain' = [chain EXCEPT !.pc = "chain", !.index = 1, !.allowed = TRUE, !.results = <<>>]
    /\ UNCHANGED <<plugins, running, events, published, verdict>>

\* A for loop that breaks at the first rejection.
NextPluginUnlessRejected(index, res, count) ==
    IF res.ok /\ ~res.value THEN count + 1 ELSE index + 1

\* for plugin in plugin_list.iter(): the position after this turn, whatever
\* the plugin returned.
NextPlugin(index, res, count) == index + 1

\* One turn of the for loop over plugin_list: on_event of the next plugin.
\* The turn is recorded with the plugin's position in the list.
ConsumerOnEvent ==
    /\ chain.pc = "chain"
    /\ chain.index <= Len(plugins)
    /\ LET plugin == plugins[chain.index]
       IN  \E call \in IF plugin.exports THEN Calls ELSE {NotCalled} :
              LET res == on_event(plugin, call)
              IN  chain' = [chain EXCEPT
                      !.index = NextPlugin(@, res, Len(plugins)),
                      !.allowed = IF res.ok /\ ~res.value THEN FALSE ELSE @,
                      !.results = Append(@, [plugin |-> chain.index,
                                             exports |-> plugin.exports,
                                             call |-> call])]
    /\ UNCHANGED <<plugins, running, events, published, verdict>>

\* The end of the for loop: if allowed { processed } else { dropped }, and the
\* lock is released.
ConsumerVerdict ==
    /\ chain.pc = "chain"
    /\ chain.index > Len(plugins)
    /\ verdict' = [event |-> chain.event, dropped |-> ~chain.allowed, results |-> chain.results]
    /\ chain' = [ChainStart EXCEPT !.pc = "loop"]
    /\ UNCHANGED <<plugins, running, events, published>>

\* ZenithEngine::new and start, with the plugins loaded before start.
EngineInit ==
    /\ plugins = <<>>
    /\ running = TRUE
    /\ events = <<>>
    /\ published = 0
    /\ chain = ChainStart
    /\ verdict = NoVerdict

----------------------------------------------------------------------------
(* scheduler.rs: the scheduler's calls made by concurrent threads, with    *)
(* the write locks of Scheduler.jobs and Scheduler.pending_queue           *)
(* (parking_lot::RwLock: exclusive, not reentrant). A call that takes one   *)
(* lock, changes the state and drops the lock is one step; a call that     *)
(* asks for a second lock while it holds the first is a step per lock.     *)

\* A call begins on thread t, which is in no other call.
Begins(t) ==
    /\ threads[t].pc = "idle"
    /\ calls < MaxCalls
    /\ calls' = calls + 1

\* submit, first block: jobs.write(); jobs.insert(job_id, job).
SubmitInsert(t) ==
    /\ Begins(t)
    /\ jobs_lock = 0
    /\ \E job_id \in JobIds, descriptor \in Descriptors :
          /\ jobs[job_id] = NoJob
          /\ \A j \in JobIds : j < job_id => jobs[j] /= NoJob
          /\ jobs' = [jobs EXCEPT ![job_id] =
                         transition(NewJob(job_id, descriptor), "Queued",
                                    "Submitted to scheduler", now)]
          /\ threads' = [threads EXCEPT ![t] = [pc |-> "submit_push", job_id |-> job_id]]
    /\ UNCHANGED <<pending_queue, nodes, config, now, ret, jobs_lock, queue_lock>>

\* submit, second block: pending_queue.write(); queue.push(job_id, priority).
SubmitPush(t) ==
    /\ threads[t].pc = "submit_push"
    /\ queue_lock = 0
    /\ LET job_id == threads[t].job_id
       IN  pending_queue' = MapInsert(pending_queue, job_id, jobs[job_id].descriptor.priority)
    /\ ret' = Returned(TRUE)
    /\ threads' = [threads EXCEPT ![t] = NoCall]
    /\ UNCHANGED <<jobs, nodes, config, now, calls, jobs_lock, queue_lock>>

\* cancel up to its request for the queue's lock: jobs.write(), the match on
\* job.state and the transition. The Pending | Queued | Scheduled arm goes on
\* to pending_queue.write() with the jobs lock held; the other arms return.
CancelLockJobs(t) ==
    /\ Begins(t)
    /\ jobs_lock = 0
    /\ \E job_id \in JobIds :
          IF jobs[job_id] /= NoJob /\ jobs[job_id].state \in {"Pending", "Queued", "Scheduled"}
          THEN /\ jobs' = [jobs EXCEPT ![job_id] =
                              transition(@, "Cancelled", "User requested cancellation", now)]
               /\ jobs_lock' = t
               /\ threads' = [threads EXCEPT ![t] = [pc |-> "cancel_queue", job_id |-> job_id]]
               /\ UNCHANGED <<pending_queue, nodes, config, now, ret>>
          ELSE /\ cancel(job_id, "User requested cancellation")
               /\ UNCHANGED <<threads, jobs_lock>>
    /\ UNCHANGED queue_lock

\* cancel, Pending | Queued | Scheduled arm: pending_queue.write();
\* queue.remove(job_id); Ok(()), and both locks are dropped.
CancelLockQueue(t) ==
    /\ threads[t].pc = "cancel_queue"
    /\ queue_lock = 0
    /\ pending_queue' = QueueRemove(pending_queue, threads[t].job_id)
    /\ ret' = Returned(TRUE)
    /\ jobs_lock' = 0
    /\ threads' = [threads EXCEPT ![t] = NoCall]
    /\ UNCHANGED <<jobs, nodes, config, now, calls, queue_lock>>

\* schedule_cycle, first lock: pending_queue.write().
CycleLockQueue(t) ==
    /\ Begins(t)
    /\ queue_lock = 0
    /\ queue_lock' = t
    /\ threads' = [threads EXCEPT ![t] = [pc |-> "cycle_jobs", job_id |-> 0]]
    /\ UNCHANGED <<jobs, pending_queue, nodes, config, now, ret, jobs_lock>>

\* schedule_cycle, second lock: jobs.write(), then the cycle itself, and both
\* locks are dropped.
CycleLockJobs(t) ==
    /\ threads[t].pc = "cycle_jobs"
    /\ jobs_lock = 0
    /\ \E queue_iter \in Orders(DOMAIN pending_queue), node_iter \in Orders(Registered(nodes)) :
          schedule_cycle(queue_iter, node_iter)
    /\ queue_lock' = 0
    /\ threads' = [threads EXCEPT ![t] = NoCall]
    /\ UNCHANGED <<calls, jobs_lock>>

\* mark_job_started, mark_job_completed and cleanup_zombie_jobs: jobs.write()
\* alone.
JobsLockOnly(t) ==
    /\ Begins(t)
    /\ jobs_lock = 0
    /\ \/ \E j \in JobIds : mark_job_started(j)
       \/ \E j \in JobIds, success \in BOOLEAN : mark_job_completed(j, success, "Job finished")
       \/ cleanup_zombie_jobs
    /\ UNCHANGED <<threads, jobs_lock, queue_lock>>

----------------------------------------------------------------------------
(* node.rs: a caller of the registry. It builds a Node (Node::new), sets   *)
(* its public health field, allocates and releases GPUs on it, registers   *)
(* it (the registry takes the Node), and gets a clone of a registered Node *)
(* back (NodeRegistry::get) to change and register again.                  *)

\* NodeHealth
NodeHealths == {"Healthy", "Warning", "Unhealthy", "Unreachable"}

\* The positions in node.topology.gpus that allocate_gpus takes: the first
\* count unallocated ones.
RECURSIVE FirstFree(_, _, _)
FirstFree(gpus, i, count) ==
    IF count = 0 \/ i > Len(gpus) THEN {}
    ELSE IF gpus[i].allocated THEN FirstFree(gpus, i + 1, count)
    ELSE {i} \cup FirstFree(gpus, i + 1, count - 1)

\* Node::allocate_gpus: the Node afterwards (unchanged on Err).
allocate_gpus(node, job_id, count) ==
    LET taken == FirstFree(node.topology.gpus, 1, count)
    IN  IF available_gpus(node) < count THEN node
        ELSE [node EXCEPT
                !.topology.gpus =
                    [i \in 1..Len(@) |->
                        IF i \in taken
                        THEN [@[i] EXCEPT !.allocated = TRUE,
                                          !.allocated_job_id = Some(job_id)]
                        ELSE @[i]],
                !.running_jobs = Append(@, job_id)]

\* Node::release_gpus
release_gpus(node, job_id) ==
    LET Other(id) == id /= job_id
    IN  [node EXCEPT
            !.topology.gpus =
                [i \in 1..Len(@) |->
                    IF @[i].allocated_job_id = Some(job_id)
                    THEN [@[i] EXCEPT !.allocated = FALSE, !.allocated_job_id = None]
                    ELSE @[i]],
            !.running_jobs = SelectSeq(@, Other)]

\* One more call of the registry's caller; the scheduler proper, the ring and
\* the engine are not in use.
RegistryCall ==
    /\ calls < MaxCalls
    /\ calls' = calls + 1
    /\ UNCHANGED <<jobs, pending_queue, config, threads, jobs_lock, queue_lock>>
    /\ UNCHANGED <<ringVars, engineVars, pluginVars, ffiVars, logVars, runtimeVars>>

\* Node::new
NodeNew ==
    /\ RegistryCall
    /\ \E n \in NodeIds : built' = NewNode(n, Topology(NodeGpuCount(n)), now)
    /\ ret' = Returned(TRUE)
    /\ UNCHANGED <<nodes, now>>

\* node.health = h
SetHealth ==
    /\ RegistryCall
    /\ built /= NoNode
    /\ \E h \in NodeHealths \ {built.health} : built' = [built EXCEPT !.health = h]
    /\ ret' = Returned(TRUE)
    /\ UNCHANGED <<nodes, now>>

\* node.allocate_gpus(job_id, count)
AllocateGpus ==
    /\ RegistryCall
    /\ built /= NoNode
    /\ \E j \in JobIds, count \in 0..MaxAllocate :
          /\ built' = allocate_gpus(built, j, count)
          /\ ret' = Returned(available_gpus(built) >= count)
    /\ UNCHANGED <<nodes, now>>

\* node.release_gpus(job_id)
ReleaseGpus ==
    /\ RegistryCall
    /\ built /= NoNode
    /\ \E j \in JobIds : built' = release_gpus(built, j)
    /\ ret' = Returned(TRUE)
    /\ UNCHANGED <<nodes, now>>

\* registry.register(node): the Node moves into the registry, under its id.
RegisterBuilt ==
    /\ RegistryCall
    /\ built /= NoNode
    /\ nodes' = [nodes EXCEPT ![built.id] = built]
    /\ built' = NoNode
    /\ ret' = Returned(TRUE)
    /\ UNCHANGED now

\* registry.get(node_id): a clone of the registered Node, if there is one.
GetNode ==
    /\ RegistryCall
    /\ \E n \in Registered(nodes) : built' = nodes[n]
    /\ ret' = Returned(TRUE)
    /\ UNCHANGED <<nodes, now>>

\* registry.deregister(node_id)
DeregisterNode ==
    /\ RegistryCall
    /\ \E n \in NodeIds : deregister(n)
    /\ UNCHANGED built

\* registry.update(node_id, topology) with the topology an agent reports
UpdateNode ==
    /\ RegistryCall
    /\ \E n \in NodeIds : update(n, Topology(NodeGpuCount(n)))
    /\ UNCHANGED built

\* The clock comes to read another second.
RegistryTick ==
    /\ RegistryCall
    /\ Tick
    /\ UNCHANGED built

----------------------------------------------------------------------------
(* core/src/wasm_host.rs: WasmPlugin::on_event called on one handle by     *)
(* several threads. Taking the store's Mutex, looking the export up and    *)
(* calling it are steps of their own; the guard is dropped on return.      *)

\* A Mutex that lets every thread in.
MutexAlwaysFree(holder) == TRUE

\* Mutex::lock returns once no thread holds the Mutex.
MutexFree(holder) == holder = 0

\* A thread calls plugin.on_event(source_id, seq_no).
OnEventEnter(t) ==
    /\ callers[t].pc = "idle"
    /\ handle.calls < MaxOnEvent
    /\ handle' = [handle EXCEPT !.calls = @ + 1]
    /\ callers' = [callers EXCEPT ![t].pc = "lock"]

\* self.store.lock()
OnEventLock(t) ==
    /\ callers[t].pc = "lock"
    /\ MutexFree(handle.holder)
    /\ handle' = [handle EXCEPT !.holder = t]
    /\ callers' = [callers EXCEPT ![t].pc = "get_func"]

\* get_typed_func: the export is there and is called next, or Ok(true) is
\* returned and the guard dropped.
OnEventGetFunc(t) ==
    /\ callers[t].pc = "get_func"
    /\ IF handle.exports
       THEN /\ callers' = [callers EXCEPT ![t].pc = "call"]
            /\ UNCHANGED handle
       ELSE /\ callers' = [callers EXCEPT
                              ![t] = [pc |-> "idle",
                                      ret |-> <<on_event([exports |-> FALSE], NotCalled)>>]]
            /\ handle' = [handle EXCEPT !.holder = 0]

\* f.call(..) returns or traps; on_event returns and the guard is dropped.
OnEventCall(t) ==
    /\ callers[t].pc = "call"
    /\ \E call \in Calls :
          callers' = [callers EXCEPT
                        ![t] = [pc |-> "idle",
                                ret |-> <<on_event([exports |-> TRUE], call)>>]]
    /\ handle' = [handle EXCEPT !.holder = 0]

\* The identifiers events carry.
EventIds == 1..MaxEvents

----------------------------------------------------------------------------
(* core/src/lib.rs: zenith_publish on the engine zenith_init made and      *)
(* started. core/src/ring_buffer.rs is not among the sources: the engine's *)
(* ring is the bounded queue the specification describes (capacity         *)
(* rounded up to a power of two, push fails when full).                    *)

\* ZenithRingBuffer::new(buffer_size): the capacity of the ring.
ZenithRingBuffer_capacity(buffer_size) == next_power_of_two(buffer_size)

\* ZenithRingBuffer::push: Ok and the queue with the event appended, or Err
\* and the queue as it was.
ZenithRingBuffer_push(queue, capacity, event) ==
    IF Len(queue) >= capacity
    THEN [ok |-> FALSE, queue |-> queue]
    ELSE [ok |-> TRUE, queue |-> Append(queue, event)]

\* ffi_error
SUCCESS == 0
NULL_POINTER == -1
BUFFER_FULL == -2
FFI_ERROR == -4

\* The arguments of zenith_publish: which pointers are null, whether the FFI
\* structs import (arrow::ffi::from_ffi), source_id and seq_no.
PublishArgs ==
    [engine_null : BOOLEAN, array_null : BOOLEAN, schema_null : BOOLEAN,
     ffi_ok : BOOLEAN, source_id : EventIds, seq_no : EventIds]

\* A pointer check that looks at the engine pointer alone.
engine_is_null(args) == args.engine_null

\* engine_ptr.is_null() || array_ptr.is_null() || schema_ptr.is_null()
any_is_null(args) == args.engine_null \/ args.array_null \/ args.schema_null

\* zenith_publish
zenith_publish(args) ==
    LET event == [source_id |-> args.source_id, seq_no |-> args.seq_no]
        pushed_to == ZenithRingBuffer_push(events, buffer_capacity, event)
        result == IF any_is_null(args) THEN NULL_POINTER
                  ELSE IF ~args.ffi_ok THEN FFI_ERROR
                  ELSE IF pushed_to.ok THEN SUCCESS
                  ELSE BUFFER_FULL
        pointers == [engine_null |-> args.engine_null, array_null |-> args.array_null,
                     schema_null |-> args.schema_null]
    IN  /\ code' = [code |-> result, args |-> <<pointers>>]
        /\ IF result = SUCCESS
           THEN /\ published < MaxEvents
                /\ events' = pushed_to.queue
                /\ published' = published + 1
           ELSE UNCHANGED <<events, published>>
        /\ UNCHANGED <<plugins, running, chain, verdict, buffer_capacity>>

ZenithPublish == \E args \in PublishArgs : zenith_publish(args)

----------------------------------------------------------------------------
(* host-api/src/logging/mod.rs: the in-memory log. LOG_BUFFER is a         *)
(* Mutex<VecDeque<LogEntry>>; log holds the lock from push_back to the end *)
(* of the trimming loop, so a call is one step. The messages are numbered  *)
(* in the order they are logged ("Log {i}" in test_log_buffer_limit).      *)

\* const MAX_LOG_ENTRIES
MAX_LOG_ENTRIES == 1000

\* A trimming loop that pops at the back.
trim_back(buffer) ==
    IF Len(buffer) > MAX_LOG_ENTRIES THEN SubSeq(buffer, 1, MAX_LOG_ENTRIES) ELSE buffer

\* while buffer.len() > MAX_LOG_ENTRIES { buffer.pop_front(); }
RECURSIVE trim(_)
trim(buffer) ==
    IF Len(buffer) > MAX_LOG_ENTRIES THEN trim(Tail(buffer)) ELSE buffer

\* LoggingAPI::log
LoggingAPI_log(level, message) ==
    /\ logged < MaxLogCalls
    /\ log_buffer' = trim(Append(log_buffer, [level |-> level, message |-> message]))
    /\ logged' = logged + 1

Log == LoggingAPI_log("Debug", logged + 1)

\* LoggingAPI::clear_logs
ClearLogs ==
    /\ log_buffer /= <<>>
    /\ log_buffer' = <<>>
    /\ logged' = 0

----------------------------------------------------------------------------
(* zenith-runtime-cpu/src/buffer.rs: len() called by a third thread while  *)
(* the producer and the consumer run (core/src/admin_api.rs get_status     *)
(* calls buffer.len() from the admin server's task). The two Relaxed loads *)
(* are a step each.                                                        *)

\* Some step of the producer or of the consumer.
RingStep ==
    \/ PushLoadHead \/ PushLoadTail \/ PushWriteBegin \/ PushWriteEnd \/ PushStoreHead
    \/ PopLoadTail \/ PopLoadHead \/ PopReadBegin \/ PopReadEnd \/ PopStoreTail

\* len, step 1: let head = self.head.load(Relaxed).
LenLoadHead ==
    /\ observer.pc = "idle"
    /\ observer' = [pc |-> "load_tail", head |-> ring.head, ret |-> <<>>]

\* len, step 2: let tail = self.tail.load(Relaxed); head.wrapping_sub(tail).
LenLoadTail ==
    /\ observer.pc = "load_tail"
    /\ observer' = [pc |-> "idle", head |-> 0,
                    ret |-> <<wrapping_sub(observer.head, ring.tail)>>]

----------------------------------------------------------------------------
(* zenith-runtime-cpu/src/buffer.rs: push_batch, called by the producer    *)
(* while the consumer pops. Its try_push runs as the producer's steps      *)
(* PushLoadTail .. PushStoreHead.                                          *)

\* push_batch begins: let mut pushed = 0.
BatchBegin ==
    /\ batcher.pc = "idle"
    /\ batcher.items /= <<>>
    /\ batcher' = [batcher EXCEPT !.pc = "loop", !.pushed = 0, !.ret = <<>>,
                                  !.input = batcher.items, !.before = Len(pushed)]
    /\ UNCHANGED ringVars

\* while let Some(item) = items.pop(): the last item leaves the vector and
\* try_push(item) begins with its load of head; an empty vector ends the loop
\* and push_batch returns pushed.
BatchTake ==
    /\ batcher.pc = "loop"
    /\ IF batcher.items = <<>>
       THEN /\ batcher' = [batcher EXCEPT !.pc = "idle", !.ret = <<batcher.pushed>>]
            /\ UNCHANGED ringVars
       ELSE /\ batcher' = [batcher EXCEPT
                              !.pc = "try_push",
                              !.items = SubSeq(@, 1, Len(@) - 1)]
            /\ producer' = [pc |-> "load_tail", pos |-> ring.head,
                            item |-> batcher.items[Len(batcher.items)], ret |-> <<>>]
            /\ UNCHANGED <<ring, consumer, pushed, popped, race>>

\* if self.try_push(item).is_err() { break; } pushed += 1: the Err, and the
\* item in it, is dropped.
BatchResult ==
    /\ batcher.pc = "try_push"
    /\ producer.pc = "idle"
    /\ batcher' = IF producer.ret = <<"Ok">>
                  THEN [batcher EXCEPT !.pc = "loop", !.pushed = @ + 1]
                  ELSE [batcher EXCEPT !.pc = "idle", !.ret = <<batcher.pushed>>]
    /\ UNCHANGED ringVars

----------------------------------------------------------------------------
(* zenith-runtime-cpu/src/circuit_breaker.rs: one CircuitBreaker and a     *)
(* caller of call, is_allowed, on_success and on_failure; each is one step.*)

\* CircuitBreakerConfig
BreakerConfigs ==
    [failure_threshold : 1..MaxThreshold, reset_timeout : {ResetTimeout},
     success_threshold : 1..MaxThreshold]

\* CircuitBreaker::new
CircuitBreaker_new(cfg) ==
    [config |-> cfg,
     state |-> "Closed",
     failure_count |-> 0,
     success_count |-> 0,
     last_failure_time |-> None,
     total_calls |-> 0,
     total_failures |-> 0,
     total_successes |-> 0,
     total_rejections |-> 0]

\* The caller before its first call; opened is the time at which the breaker
\* last became Open.
NoBreakerCall == [now |-> 0, ret |-> <<>>, ran |-> FALSE, streak |-> 0, opened |-> 0]

\* CircuitBreaker::is_allowed at time t: the answer and the breaker afterwards.
is_allowed(b, t) ==
    IF b.state \in {"Closed", "HalfOpen"} THEN [allowed |-> TRUE, breaker |-> b]
    ELSE IF /\ IsSome(b.last_failure_time)
            /\ t - Unwrap(b.last_failure_time) >= b.config.reset_timeout
         THEN [allowed |-> TRUE,
               breaker |-> [b EXCEPT !.state = "HalfOpen", !.success_count = 0]]
         ELSE [allowed |-> FALSE, breaker |-> b]

\* CircuitBreaker::on_success
on_success(b) ==
    LET counted == [b EXCEPT !.total_successes = @ + 1]
        count == b.success_count + 1
    IN  CASE b.state = "Closed" -> [counted EXCEPT !.failure_count = 0]
          [] b.state = "HalfOpen" ->
                IF count >= b.config.success_threshold
                THEN [counted EXCEPT !.state = "Closed", !.failure_count = 0,
                                     !.success_count = 0]
                ELSE [counted EXCEPT !.success_count = count]
          [] b.state = "Open" -> counted

\* A test that asks for one failure more than the threshold.
threshold_passed(count, failure_threshold) == count > failure_threshold

\* count >= self.config.failure_threshold
threshold_reached(count, failure_threshold) == count >= failure_threshold

\* CircuitBreaker::on_failure at time t
on_failure(b, t) ==
    LET counted == [b EXCEPT !.total_failures = @ + 1, !.last_failure_time = Some(t)]
        count == b.failure_count + 1
    IN  CASE b.state = "Closed" ->
                [counted EXCEPT
                    !.failure_count = count,
                    !.state = IF threshold_reached(count, b.config.failure_threshold)
                              THEN "Open" ELSE @]
          [] b.state = "HalfOpen" -> [counted EXCEPT !.state = "Open", !.success_count = 0]
          [] b.state = "Open" -> counted

\* CircuitBreaker::call at time t of a function that returns Ok or Err: what
\* call returns, whether the function ran, and the breaker afterwards.
call(b, t, outcome) ==
    LET counted == [b EXCEPT !.total_calls = @ + 1]
        asked == is_allowed(counted, t)
    IN  IF ~asked.allowed
        THEN [ret |-> "CircuitOpen", ran |-> FALSE,
              breaker |-> [asked.breaker EXCEPT !.total_rejections = @ + 1]]
        ELSE IF outcome = "Ok"
        THEN [ret |-> "Ok", ran |-> TRUE, breaker |-> on_success(asked.breaker)]
        ELSE [ret |-> "CallFailed", ran |-> TRUE, breaker |-> on_failure(asked.breaker, t)]

\* One more call on the breaker, while the budget lasts; the caller notes the
\* time at which the breaker opens.
BreakerStep(after, returned, ran, streak) ==
    /\ breaker.total_successes + breaker.total_failures + breaker.total_rejections
          < MaxBreakerCalls
    /\ breaker' = after
    /\ cb' = [cb EXCEPT
                !.ret = returned, !.ran = ran, !.streak = streak,
                !.opened = IF breaker.state /= "Open" /\ after.state = "Open"
                           THEN cb.now ELSE @]

\* cb.call(f)
BreakerCall ==
    \E outcome \in {"Ok", "Err"} :
        LET r == call(breaker, cb.now, outcome)
        IN  BreakerStep(r.breaker, <<r.ret>>, r.ran,
                        IF ~r.ran THEN cb.streak
                        ELSE IF outcome = "Ok" THEN 0 ELSE cb.streak + 1)

\* cb.is_allowed()
BreakerIsAllowed ==
    /\ breaker.state = "Open"
    /\ LET r == is_allowed(breaker, cb.now)
       IN  /\ r.breaker /= breaker
           /\ BreakerStep(r.breaker, <<r.allowed>>, FALSE, cb.streak)

\* cb.on_success()
BreakerOnSuccess == BreakerStep(on_success(breaker), <<>>, FALSE, 0)

\* cb.on_failure()
BreakerOnFailure == BreakerStep(on_failure(breaker, cb.now), <<>>, FALSE, cb.streak + 1)

\* Time passes.
BreakerTick ==
    /\ cb.now < MaxClock
    /\ cb' = [cb EXCEPT !.now = @ + 1]
    /\ UNCHANGED breaker

----------------------------------------------------------------------------
(* The specifications.                                                     *)

\* The Nodes a caller can hand to register: built by Node::new, with GPUs
\* allocated to one job and to another, and those of the first released or not.
BuiltNodes(n) ==
    LET new == NewNode(n, Topology(NodeGpuCount(n)), 0)
        held == {allocate_gpus(allocate_gpus(new, 1, a), 2, b) : a, b \in 0..MaxAllocate}
    IN  held \cup {release_gpus(node, 1) : node \in held}

\* The caller of the registry holds no Node.
RegistryUnused == built = [health |-> "Absent"]

\* A plugin handle nobody calls.
PluginUnused ==
    /\ handle = [exports |-> FALSE, holder |-> 0, calls |-> 0]
    /\ callers = [t \in ThreadIds |-> [pc |-> "idle", ret |-> <<>>]]

\* zenith_publish not called yet, on an engine of zenith_init(1).
FfiUnused ==
    /\ buffer_capacity = 1
    /\ code = [code |-> 0, args |-> <<>>]

\* LOG_BUFFER as lazy_static makes it: empty.
LogUnused ==
    /\ log_buffer = <<>>
    /\ logged = 0

\* The producer outside push_batch, holding the vector items; input is the
\* vector as it was handed to the last push_batch and before the number of
\* items the ring had accepted by then.
NoBatch(items) ==
    [pc |-> "idle", items |-> items, pushed |-> 0, ret |-> <<>>, input |-> items, before |-> 0]

\* No circuit breaker in use: one as CircuitBreaker::new makes it.
BreakerUnused ==
    /\ breaker = CircuitBreaker_new([failure_threshold |-> 1, reset_timeout |-> ResetTimeout,
                                      success_threshold |-> 1])
    /\ cb = NoBreakerCall

\* Nobody inside len() or push_batch.
CallersUnused ==
    /\ observer = [pc |-> "idle", head |-> 0, ret |-> <<>>]
    /\ batcher = NoBatch(<<>>)

RuntimeUnused == BreakerUnused /\ CallersUnused

MoreUnused == RegistryUnused /\ PluginUnused /\ FfiUnused /\ LogUnused /\ RuntimeUnused

\* The scheduler; no ring and no engine event is in use.
Init == SchedInit /\ RingUnused /\ EngineInit /\ MoreUnused
Spec == Init /\ [][Next]_vars

\* The scheduler, unused.
SchedUnused ==
    /\ jobs = [j \in JobIds |-> NoJob]
    /\ pending_queue = <<>>
    /\ nodes = [n \in NodeIds |-> NoNode]
    /\ config = [max_schedule_batch |-> DefaultMaxScheduleBatch, prefer_same_node |-> TRUE,
                 job_timeout_secs |-> JobTimeoutSecs]
    /\ now = 0
    /\ ret = Returned(TRUE)
    /\ calls = 0
    /\ threads = [t \in ThreadIds |-> NoCall]
    /\ jobs_lock = 0
    /\ queue_lock = 0

\* The scheduler after Scheduler::new and the submit of a first job, a GPU
\* job of any of PlaceDescriptors.
InitPlace ==
    /\ \E descriptor \in PlaceDescriptors :
          /\ jobs = [j \in JobIds |->
                       IF j = 1
                       THEN transition(NewJob(1, descriptor), "Queued",
                                       "Submitted to scheduler", 0)
                       ELSE NoJob]
          /\ pending_queue = MapInsert(<<>>, 1, descriptor.priority)
    /\ \E up \in SUBSET NodeIds :
           nodes = [n \in NodeIds |->
                      IF n \in up THEN NewNode(n, Topology(NodeGpuCount(n)), 0) ELSE NoNode]
    /\ config \in Configs
    /\ now = 0
    /\ ret = Returned(TRUE)
    /\ calls = 1
    /\ threads = [t \in ThreadIds |-> NoCall]
    /\ jobs_lock = 0
    /\ queue_lock = 0
    /\ RingUnused
    /\ EngineInit
    /\ MoreUnused

\* The calls that bear on placement: jobs arrive and leave the queue, nodes
\* come and go, heartbeats age, cycles run.
NextPlace ==
    \/ Submit
    \/ Cancel
    \/ ScheduleCycle
    \/ Register
    \/ Deregister
    \/ TimePasses
SpecPlace == InitPlace /\ [][NextPlace]_vars

\* The node registry and its caller: NodeRegistry::new, no node registered.
InitRegistry ==
    /\ SchedUnused /\ RingUnused /\ EngineInit
    /\ RegistryUnused /\ PluginUnused /\ FfiUnused /\ LogUnused /\ RuntimeUnused
NextRegistry ==
    \/ NodeNew
    \/ SetHealth
    \/ AllocateGpus
    \/ ReleaseGpus
    \/ RegisterBuilt
    \/ GetNode
    \/ DeregisterNode
    \/ UpdateNode
    \/ RegistryTick
SpecRegistry == InitRegistry /\ [][NextRegistry]_vars

\* One plugin handle, loaded from a module with or without the export, and
\* the threads that call on_event on it.
InitPlugin ==
    /\ SchedUnused /\ RingUnused /\ EngineInit
    /\ RegistryUnused /\ FfiUnused /\ LogUnused /\ RuntimeUnused
    /\ \E exports \in BOOLEAN : handle = [exports |-> exports, holder |-> 0, calls |-> 0]
    /\ callers = [t \in ThreadIds |-> [pc |-> "idle", ret |-> <<>>]]
PluginRest == <<schedVars, ringVars, engineVars, registryVars, ffiVars, logVars, runtimeVars>>
NextOnEvent ==
    \/ \E t \in ThreadIds : OnEventEnter(t) /\ UNCHANGED PluginRest
    \/ \E t \in ThreadIds : OnEventLock(t) /\ UNCHANGED PluginRest
    \/ \E t \in ThreadIds : OnEventGetFunc(t) /\ UNCHANGED PluginRest
    \/ \E t \in ThreadIds : OnEventCall(t) /\ UNCHANGED PluginRest
SpecPlugin == InitPlugin /\ [][NextOnEvent]_vars

\* zenith_init(buffer_size) has made and started an engine, no plugin is
\* loaded; zenith_publish is called while the consumer thread pops.
InitPublish ==
    /\ SchedUnused /\ RingUnused /\ EngineInit
    /\ RegistryUnused /\ PluginUnused /\ LogUnused /\ RuntimeUnused
    /\ \E buffer_size \in 1..MaxBufferSize :
          buffer_capacity = ZenithRingBuffer_capacity(buffer_size)
    /\ code = [code |-> 0, args |-> <<>>]
PublishRest == <<schedVars, ringVars, registryVars, pluginVars, logVars, runtimeVars>>
NextPublish ==
    \/ ZenithPublish /\ UNCHANGED PublishRest
    \/ ConsumerCheckRunning /\ UNCHANGED <<PublishRest, ffiVars>>
    \/ ConsumerPop /\ UNCHANGED <<PublishRest, ffiVars>>
    \/ ConsumerLock /\ UNCHANGED <<PublishRest, ffiVars>>
    \/ ConsumerVerdict /\ UNCHANGED <<PublishRest, ffiVars>>
SpecPublish == InitPublish /\ [][NextPublish]_vars

\* Plugins log through the host API
InitLog ==
    /\ SchedUnused /\ RingUnused /\ EngineInit
    /\ RegistryUnused /\ PluginUnused /\ FfiUnused /\ LogUnused /\ RuntimeUnused
LogRest == <<schedVars, ringVars, engineVars, registryVars, pluginVars, ffiVars, runtimeVars>>
NextLog ==
    \/ Log /\ UNCHANGED LogRest
    \/ ClearLogs /\ UNCHANGED LogRest
SpecLog == InitLog /\ [][NextLog]_vars

\* The scheduler over a registry of Nodes registered with some GPUs in use,
\* after the submit of a first job, a gang job of 1..MaxGpuCount GPUs.
InitGang ==
    /\ \E gpu_count \in 1..MaxGpuCount :
          LET descriptor == Descriptor(10, gpu_count, TRUE)
          IN  /\ jobs = [j \in JobIds |->
                           IF j = 1
                           THEN transition(NewJob(1, descriptor), "Queued",
                                           "Submitted to scheduler", 0)
                           ELSE NoJob]
              /\ pending_queue = MapInsert(<<>>, 1, descriptor.priority)
    /\ nodes \in [NodeIds -> UNION {BuiltNodes(n) \cup {NoNode} : n \in NodeIds}]
    /\ \A n \in NodeIds : nodes[n] \in BuiltNodes(n) \cup {NoNode}
    /\ config \in Configs
    /\ now = 0
    /\ ret = Returned(TRUE)
    /\ calls = 1
    /\ threads = [t \in ThreadIds |-> NoCall]
    /\ jobs_lock = 0
    /\ queue_lock = 0
    /\ RingUnused
    /\ EngineInit
    /\ MoreUnused
NextGang ==
    \/ ScheduleCycle
    \/ Deregister
    \/ TimePasses
SpecGang == InitGang /\ [][NextGang]_vars

\* A circuit breaker and its caller
InitBreaker ==
    /\ SchedUnused /\ RingUnused /\ EngineInit
    /\ RegistryUnused /\ PluginUnused /\ FfiUnused /\ LogUnused /\ CallersUnused
    /\ \E cfg \in BreakerConfigs : breaker = CircuitBreaker_new(cfg)
    /\ cb = NoBreakerCall
BreakerRest ==
    <<schedVars, ringVars, engineVars, registryVars, pluginVars, ffiVars, logVars, callerVars>>
NextBreaker ==
    \/ BreakerCall /\ UNCHANGED BreakerRest
    \/ BreakerIsAllowed /\ UNCHANGED BreakerRest
    \/ BreakerOnSuccess /\ UNCHANGED BreakerRest
    \/ BreakerOnFailure /\ UNCHANGED BreakerRest
    \/ BreakerTick /\ UNCHANGED BreakerRest
SpecBreaker == InitBreaker /\ [][NextBreaker]_vars

\* The ring with its producer, its consumer and a thread that calls len()
InitObserver == RingInit /\ SchedUnused /\ EngineInit /\ MoreUnused
ObserverRest ==
    <<schedVars, engineVars, registryVars, pluginVars, ffiVars, logVars, breakerVars, batcher>>
NextObserver ==
    \/ RingStep /\ UNCHANGED <<ObserverRest, observer>>
    \/ LenLoadHead /\ UNCHANGED <<ObserverRest, ringVars>>
    \/ LenLoadTail /\ UNCHANGED <<ObserverRest, ringVars>>
SpecObserver == InitObserver /\ [][NextObserver]_vars

\* The ring with a producer that calls push_batch, and its consumer
InitBatch ==
    /\ RingInit /\ SchedUnused /\ EngineInit
    /\ RegistryUnused /\ PluginUnused /\ FfiUnused /\ LogUnused /\ BreakerUnused
    /\ observer = [pc |-> "idle", head |-> 0, ret |-> <<>>]
    /\ \E n \in 1..MaxBatch : batcher = NoBatch([i \in 1..n |-> i])
BatchRest ==
    <<schedVars, engineVars, registryVars, pluginVars, ffiVars, logVars, breakerVars, observer>>
NextBatch ==
    \/ BatchBegin /\ UNCHANGED BatchRest
    \/ BatchTake /\ UNCHANGED BatchRest
    \/ BatchResult /\ UNCHANGED BatchRest
    \/ PushLoadTail /\ UNCHANGED <<BatchRest, batcher>>
    \/ PushWriteBegin /\ UNCHANGED <<BatchRest, batcher>>
    \/ PushWriteEnd /\ UNCHANGED <<BatchRest, batcher>>
    \/ PushStoreHead /\ UNCHANGED <<BatchRest, batcher>>
    \/ PopLoadTail /\ UNCHANGED <<BatchRest, batcher>>
    \/ PopLoadHead /\ UNCHANGED <<BatchRest, batcher>>
    \/ PopReadBegin /\ UNCHANGED <<BatchRest, batcher>>
    \/ PopReadEnd /\ UNCHANGED <<BatchRest, batcher>>
    \/ PopStoreTail /\ UNCHANGED <<BatchRest, batcher>>
SpecBatch == InitBatch /\ [][NextBatch]_vars

\* The scheduler called by concurrent threads
InitLocks == SchedInit /\ RingUnused /\ EngineInit /\ MoreUnused
NextLocks ==
    \/ \E t \in ThreadIds : SubmitInsert(t) /\ UNCHANGED <<ringVars, engineVars, moreVars>>
    \/ \E t \in ThreadIds : SubmitPush(t) /\ UNCHANGED <<ringVars, engineVars, moreVars>>
    \/ \E t \in ThreadIds : CancelLockJobs(t) /\ UNCHANGED <<ringVars, engineVars, moreVars>>
    \/ \E t \in ThreadIds : CancelLockQueue(t) /\ UNCHANGED <<ringVars, engineVars, moreVars>>
    \/ \E t \in ThreadIds : CycleLockQueue(t) /\ UNCHANGED <<ringVars, engineVars, moreVars>>
    \/ \E t \in ThreadIds : CycleLockJobs(t) /\ UNCHANGED <<ringVars, engineVars, moreVars>>
    \/ \E t \in ThreadIds : JobsLockOnly(t) /\ UNCHANGED <<ringVars, engineVars, moreVars>>
SpecLocks == InitLocks /\ [][NextLocks]_vars

\* The ring with its producer and its consumer
InitRing == RingInit /\ SchedUnused /\ EngineInit /\ MoreUnused
NextRing ==
    \/ PushLoadHead /\ UNCHANGED <<schedVars, engineVars, moreVars>>
    \/ PushLoadTail /\ UNCHANGED <<schedVars, engineVars, moreVars>>
    \/ PushWriteBegin /\ UNCHANGED <<schedVars, engineVars, moreVars>>
    \/ PushWriteEnd /\ UNCHANGED <<schedVars, engineVars, moreVars>>
    \/ PushStoreHead /\ UNCHANGED <<schedVars, engineVars, moreVars>>
    \/ PopLoadTail /\ UNCHANGED <<schedVars, engineVars, moreVars>>
    \/ PopLoadHead /\ UNCHANGED <<schedVars, engineVars, moreVars>>
    \/ PopReadBegin /\ UNCHANGED <<schedVars, engineVars, moreVars>>
    \/ PopReadEnd /\ UNCHANGED <<schedVars, engineVars, moreVars>>
    \/ PopStoreTail /\ UNCHANGED <<schedVars, engineVars, moreVars>>
SpecRing == InitRing /\ [][NextRing]_vars

\* The engine with its consumer thread
InitChain == EngineInit /\ SchedUnused /\ RingUnused /\ MoreUnused
NextChain ==
    \/ LoadPlugin /\ UNCHANGED <<schedVars, ringVars, moreVars>>
    \/ Publish /\ UNCHANGED <<schedVars, ringVars, moreVars>>
    \/ Shutdown /\ UNCHANGED <<schedVars, ringVars, moreVars>>
    \/ ConsumerCheckRunning /\ UNCHANGED <<schedVars, ringVars, moreVars>>
    \/ ConsumerPop /\ UNCHANGED <<schedVars, ringVars, moreVars>>
    \/ ConsumerLock /\ UNCHANGED <<schedVars, ringVars, moreVars>>
    \/ ConsumerOnEvent /\ UNCHANGED <<schedVars, ringVars, moreVars>>
    \/ ConsumerVerdict /\ UNCHANGED <<schedVars, ringVars, moreVars>>
SpecChain == InitChain /\ [][NextChain]_vars

\* The engine with its consumer thread scheduled fairly: a step the thread
\* can take is taken in the end.
ConsumerStep ==
    \/ ConsumerCheckRunning /\ UNCHANGED <<schedVars, ringVars, moreVars>>
    \/ ConsumerPop /\ UNCHANGED <<schedVars, ringVars, moreVars>>
    \/ ConsumerLock /\ UNCHANGED <<schedVars, ringVars, moreVars>>
    \/ ConsumerOnEvent /\ UNCHANGED <<schedVars, ringVars, moreVars>>
    \/ ConsumerVerdict /\ UNCHANGED <<schedVars, ringVars, moreVars>>
SpecChainFair == SpecChain /\ WF_vars(ConsumerStep)

----------------------------------------------------------------------------
(* Claims about the ring.                                                  *)

\* C4: in every state of every interleaving of the producer's and the
\* consumer's steps, the number of stored items head - tail (in wrapping
\* arithmetic, and as the count of items pushed and not popped) is at least 0
\* and at most capacity.
C4_RingLenWithinCapacity ==
    /\ wrapping_sub(ring.head, ring.tail) = Len(pushed) - Len(popped)
    /\ 0 <= Len(pushed) - Len(popped)
    /\ Len(pushed) - Len(popped) <= ring.capacity

\* C4 happens: a ring of capacity 2 is full, its counters have wrapped past
\* 2^WordBits - 1, and both threads are in the middle of a call.
C4_Witness ==
    /\ ring.capacity = 2
    /\ wrapping_sub(ring.head, ring.tail) = 2
    /\ ring.head < ring.tail
    /\ producer.pc = "load_tail"
    /\ consumer.pc = "store_tail"

\* C5: the items popped are always a prefix of the items pushed (same items,
\* same order, none lost, none twice), and the consumer never reads a slot
\* that holds no finished write.
C5_RingFifo ==
    /\ Len(popped) <= Len(pushed)
    /\ popped = SubSeq(pushed, 1, Len(popped))
    /\ ~race

\* C5 happens: a ring of capacity 2 has had three items popped (a slot was
\* used twice) while the producer is writing one slot and the consumer
\* reading the other.
C5_Witness ==
    /\ ring.capacity = 2
    /\ Len(popped) = 3
    /\ producer.pc = "writing"
    /\ consumer.pc = "reading"

\* C12: try_push on a ring that holds capacity items returns Err with the
\* item offered and changes neither head, tail nor a slot; try_push on a ring
\* that holds fewer (as after a pop) goes on to write and returns Ok; try_pop
\* on an empty ring returns None and changes nothing.
C12_RingBackPressure ==
    [][/\ (PushLoadTail /\ wrapping_sub(ring.head, ring.tail) = ring.capacity)
            => /\ producer'.ret = <<"Err", Len(pushed) + 1>>
               /\ ring' = ring
               /\ pushed' = pushed
       /\ (PushLoadTail /\ wrapping_sub(ring.head, ring.tail) < ring.capacity)
            => producer'.pc = "write"
       /\ PushStoreHead
            => /\ producer'.ret = <<"Ok">>
               /\ pushed' = Append(pushed, Len(pushed) + 1)
       /\ (PopLoadHead /\ ring.head = ring.tail)
            => /\ consumer'.ret = <<"None">>
               /\ ring' = ring
               /\ popped' = popped]_vars

\* C12 happens: on a ring of capacity 2 that holds items 1 and 2, the push of
\* item 3 has returned Err(3) (test_spsc_full).
C12_Witness ==
    /\ ring.capacity = 2
    /\ pushed = <<1, 2>>
    /\ popped = <<>>
    /\ consumer.pc = "idle"
    /\ producer.ret = <<"Err", 3>>

\* The powers of two up to the word's range.
PowersOfTwo == {2 ^ k : k \in 0..(WordBits - 1)}

\* The least power of two that is at least n.
LeastPowerOfTwo(n) ==
    CHOOSE p \in PowersOfTwo : p >= n /\ \A q \in PowersOfTwo : q >= n => p <= q

\* C28: a ring made for a requested capacity n >= 1 has as its capacity the
\* least power of two >= n; and while nothing has been popped it has accepted
\* at most capacity pushes, and exactly capacity of them when a push has
\* returned Err.
C28_CapacityRounding ==
    /\ \A n \in 1..MaxCapacity :
          SpscRingBuffer_new(n).capacity = LeastPowerOfTwo(n)
    /\ ring.capacity \in {LeastPowerOfTwo(n) : n \in 1..MaxCapacity}
    /\ popped = <<>> =>
          /\ Len(pushed) <= ring.capacity
          /\ (producer.ret /= <<>> /\ producer.ret[1] = "Err") =>
                Len(pushed) = ring.capacity

\* C28 happens: a ring of capacity 1 has taken item 1, nothing was popped,
\* and the push of item 2 has returned Err(2).
C28_Witness ==
    /\ ring.capacity = 1
    /\ popped = <<>>
    /\ pushed = <<1>>
    /\ producer.ret = <<"Err", 2>>

\* C33: head and tail are the counts of items pushed and popped modulo
\* 2^WordBits; through their wrap past 2^WordBits - 1 to 0 the difference
\* head - tail (wrapping) stays the number of stored items, between 0 and
\* capacity, the test for full holds exactly when capacity items are stored
\* and the test for empty exactly when none is, and the items popped are the
\* items pushed, in order.
C33_CounterWrapAround ==
    LET stored == Len(pushed) - Len(popped)
    IN  /\ ring.capacity < Word
        /\ ring.head = Len(pushed) % Word
        /\ ring.tail = Len(popped) % Word
        /\ (ring.head - ring.tail) % Word = stored
        /\ 0 <= stored /\ stored <= ring.capacity
        /\ full(ring.head, ring.tail, ring.capacity) <=> stored = ring.capacity
        /\ empty(ring.tail, ring.head) <=> stored = 0
        /\ popped = SubSeq(pushed, 1, Len(popped))
        /\ \A i \in 1..Len(pushed) : pushed[i] = i

\* C33 happens: both counters have gone past 2^WordBits - 1 and begun again,
\* on a ring of capacity 4, and the items popped since are those pushed.
C33_Witness ==
    /\ ring.capacity = 4
    /\ Len(popped) > Word
    /\ ring.tail = Len(popped) - Word
    /\ ring.head = Len(pushed) - Word
    /\ popped = pushed

\* C37: the value a len() call returns, made by a third thread while the
\* producer and the consumer run, is between 0 and capacity.
C37_LenWithinCapacity ==
    observer.ret /= <<>> => (0 <= observer.ret[1] /\ observer.ret[1] <= ring.capacity)

\* C38: when push_batch has returned n, the ring has accepted exactly n items
\* more than before the call, and every item of the vector handed to it is
\* either among the items the ring accepted or still in the vector.
C38_PushBatchConserves ==
    (batcher.pc = "idle" /\ batcher.ret /= <<>>) =>
        /\ Len(pushed) = batcher.before + batcher.ret[1]
        /\ Range(batcher.input) = Range(batcher.items) \cup
               {pushed[i] : i \in (batcher.before + 1)..Len(pushed)}

----------------------------------------------------------------------------
(* Claims about the plugin chain.                                          *)

\* The plugin of this result returned 0 from on_event.
ReturnedZero(result) == result.exports /\ ~result.call.trap /\ result.call.res = 0

\* C6: the consumer's verdict on an event is 'dropped' if and only if some
\* plugin's on_event returned 0 for it; a plugin without an on_event export
\* counts as returning non-zero, and with no plugin the event is accepted.
C6_ChainVerdict ==
    /\ verdict.dropped <=>
          \E i \in 1..Len(verdict.results) : ReturnedZero(verdict.results[i])
    /\ verdict.results = <<>> => ~verdict.dropped

\* C6 happens: an event was dropped on the 0 of the first of two plugins
\* though the second has no on_event export.
C6_Witness ==
    /\ verdict.event >= 1
    /\ verdict.dropped
    /\ Len(verdict.results) = 2
    /\ ReturnedZero(verdict.results[1])
    /\ ~verdict.results[2].exports

\* The plugin of this result failed: its on_event returned Err.
Failed(result) == result.exports /\ result.call.trap

\* C13: a plugin whose on_event returns Err does not change the verdict and
\* does not end the chain: allowed is as before, the chain goes on to the next
\* plugin, and when the verdict is made every loaded plugin has been invoked
\* and the event is dropped only if some plugin returned Ok(false).
C13_PluginErrorIsAllow ==
    [][/\ (ConsumerOnEvent /\ Failed(chain'.results[Len(chain'.results)]))
            => /\ chain'.allowed = chain.allowed
               /\ chain'.pc = "chain"
               /\ chain'.index = chain.index + 1
       /\ ConsumerVerdict
            => /\ Len(verdict'.results) = Len(plugins)
               /\ verdict'.dropped =>
                     \E i \in 1..Len(verdict'.results) : ReturnedZero(verdict'.results[i])]_vars

\* C13 happens: the first of two plugins failed on an event, the second was
\* invoked and returned non-zero, and the event was accepted.
C13_Witness ==
    /\ verdict.event >= 1
    /\ Len(verdict.results) = 2
    /\ Failed(verdict.results[1])
    /\ verdict.results[2].exports
    /\ ~verdict.results[2].call.trap
    /\ verdict.results[2].call.res /= 0
    /\ ~verdict.dropped

\* The plugins a chain consulted, in the order of its turns.
Consulted(results) == [i \in 1..Len(results) |-> results[i].plugin]

\* C25: the consumer consults the plugins one after the other in load_plugin
\* order: a chain in flight has consulted plugins 1..k in that order, the
\* plugin list does not change while a chain runs, and a chain that ends has
\* consulted every plugin of the list exactly once, rejections or not, while
\* a plugin loaded after it is in no turn of it.
C25_ChainInLoadOrder ==
    [][/\ chain.pc = "chain" =>
             /\ plugins' = plugins
             /\ Consulted(chain.results) = [i \in 1..(chain.index - 1) |-> i]
       /\ (chain.pc = "chain" /\ chain'.pc = "loop") =>
             Consulted(verdict'.results) = [i \in 1..Len(plugins) |-> i]
       /\ Len(plugins') > Len(plugins) =>
             \A i \in 1..Len(verdict.results) : verdict.results[i].plugin <= Len(plugins)]_vars

\* C25 happens: a chain over two plugins has ended with the event dropped on
\* the rejection of the first plugin, and the second was consulted after it.
C25_Witness ==
    /\ verdict.dropped
    /\ Len(verdict.results) = 2
    /\ ReturnedZero(verdict.results[1])
    /\ verdict.results[2].plugin = 2
    /\ verdict.results[2].exports


InsideTurn == chain.pc \in {"pop", "lock", "chain"}

Executing(t) == callers[t].pc \in {"get_func", "call"}

\* C27: at most one on_event invocation is executing on a plugin handle at
\* any instant, and the thread executing it holds the store's Mutex.
C27_OneInvocationAtATime ==
    /\ Cardinality({t \in ThreadIds : Executing(t)}) <= 1
    /\ \A t \in ThreadIds : Executing(t) => handle.holder = t

\* C27 happens: one thread is inside the exported function's call while
\* another has called on_event on the same handle and waits for the Mutex.
C27_Witness ==
    \E t1, t2 \in ThreadIds :
        /\ t1 /= t2
        /\ callers[t1].pc = "call"
        /\ callers[t2].pc = "lock"

----------------------------------------------------------------------------
(* Claims about the host log.                                              *)

\* C30: after any number n of LoggingAPI::log calls the log holds at most
\* 1000 entries, and they are the most recent min(n, 1000) entries logged, in
\* the order they were logged.
C30_BoundedLog ==
    LET kept == Min(logged, 1000)
    IN  /\ Len(log_buffer) <= 1000
        /\ Len(log_buffer) = kept
        /\ \A i \in 1..kept : log_buffer[i].message = logged - kept + i

\* C30 happens: more than 1000 entries were logged, and the oldest one kept
\* is the 1000th counting back from the last.
C30_Witness ==
    /\ logged > 1000
    /\ Len(log_buffer) = 1000
    /\ log_buffer[1].message = logged - 999
    /\ log_buffer[1000].message = logged

----------------------------------------------------------------------------
(* Claims about the scheduler's locks.                                     *)

\* Thread t holds the jobs lock and waits for the queue's lock.
HoldsJobsWaitsQueue(t) == jobs_lock = t /\ threads[t].pc = "cancel_queue" /\ queue_lock /= 0
\* Thread t holds the queue's lock and waits for the jobs lock.
HoldsQueueWaitsJobs(t) == queue_lock = t /\ threads[t].pc = "cycle_jobs" /\ jobs_lock /= 0

\* C11: no state is reachable in which one thread holds the jobs lock and
\* waits for the queue's lock while another holds the queue's lock and waits
\* for the jobs lock (so every call returns).
C11_NoLockCycle ==
    ~\E t1, t2 \in ThreadIds :
        /\ t1 /= t2
        /\ HoldsJobsWaitsQueue(t1)
        /\ HoldsQueueWaitsJobs(t2)

\* C36: in every state of every interleaving of the calls, with submit as its
\* two locked steps, each job id in the pending queue is that of a stored
\* job whose state is Queued.
C36_QueueHoldsQueuedJobs ==
    \A j \in DOMAIN pending_queue : jobs[j] /= NoJob /\ jobs[j].state = "Queued"

----------------------------------------------------------------------------
(* Claims about the node registry.                                         *)

\* The ids of the nodes healthy_nodes returns, the HashMap yielding iter.
HealthyIds(iter) ==
    {healthy_nodes(nodes, iter, now)[i].id :
        i \in 1..Len(healthy_nodes(nodes, iter, now))}

\* C22: is_node_healthy(n) implies that n is registered, that its health is
\* Healthy and that now - last_heartbeat <= heartbeat_timeout_seconds; and
\* healthy_nodes returns exactly the nodes for which is_node_healthy holds.
C22_HeartbeatStaleness ==
    /\ \A n \in NodeIds :
          is_node_healthy(nodes, n, now) =>
              /\ nodes[n] /= NoNode
              /\ nodes[n].health = "Healthy"
              /\ now - nodes[n].last_heartbeat <= heartbeat_timeout_seconds
    /\ \A iter \in Orders(Registered(nodes)) :
          HealthyIds(iter) = {n \in NodeIds : is_node_healthy(nodes, n, now)}

\* C22 happens: of two registered nodes of health Healthy one has a heartbeat
\* that is too old, and is_node_healthy holds for the other alone.
C22_Witness ==
    /\ \A n \in NodeIds : nodes[n] /= NoNode /\ nodes[n].health = "Healthy"
    /\ \E n \in NodeIds : now - nodes[n].last_heartbeat > heartbeat_timeout_seconds
    /\ \E n \in NodeIds : is_node_healthy(nodes, n, now)

\* The Nodes there are: the registered ones and the one the caller holds.
AllNodes == {nodes[n] : n \in Registered(nodes)} \cup ({built} \ {NoNode})

\* C24: for every node, a job id is in running_jobs if and only if at least
\* one GPU of the node has that job id as its allocated_job_id.
C24_RunningJobsMatchGpus ==
    \A node \in AllNodes :
        \A j \in JobIds :
            j \in Range(node.running_jobs) <=>
                \E i \in 1..Len(node.topology.gpus) :
                    node.topology.gpus[i].allocated_job_id = Some(j)

\* The GPUs of the registered nodes that are not marked allocated, each named
\* by its node and its position.
UnallocatedGpus ==
    {<<n, p>> \in NodeIds \X (1..MaxGpuCount) :
        /\ n \in Registered(nodes)
        /\ p <= Len(nodes[n].topology.gpus)
        /\ ~nodes[n].topology.gpus[p].allocated}

\* C40: at every time summary().healthy_nodes is the number of nodes that
\* healthy_nodes() returns (health Healthy and heartbeat not stale),
\* summary().total_nodes is the number of registered nodes, and
\* summary().available_gpus is the number of GPUs not marked allocated.
C40_SummaryAgrees ==
    \A iter \in Orders(Registered(nodes)) :
        /\ summary(nodes, iter).healthy_nodes = Len(healthy_nodes(nodes, iter, now))
        /\ summary(nodes, iter).total_nodes = Cardinality(Registered(nodes))
        /\ summary(nodes, iter).available_gpus = Cardinality(UnallocatedGpus)

----------------------------------------------------------------------------
(* Claims about placement on nodes with GPUs in use.                       *)

\* The positions of the unallocated GPUs of node n.
FreePositions(n) ==
    {p \in 1..Len(nodes[n].topology.gpus) : ~nodes[n].topology.gpus[p].allocated}

\* The device ids of the first k unallocated GPUs of node n, in device order.
FirstFreeDevices(n, k) ==
    [i \in 1..k |->
        LET p == CHOOSE p \in FreePositions(n) :
                    Cardinality({q \in FreePositions(n) : q < p}) = i - 1
        IN  nodes[n].topology.gpus[p].device_id]

\* C32: the decision of a gang job that requires k GPUs, with
\* prefer_same_node on and some healthy node with at least k free GPUs, names
\* one node and lists the first k unallocated GPUs of that node in device
\* order; a decision over several nodes is made only when no healthy node has
\* k free GPUs or prefer_same_node is off.
C32_SameNodePreference ==
    \A i \in 1..Len(ret.decisions) :
        LET d == ret.decisions[i]
            job == jobs[d.job_id]
            k == job.descriptor.gpu_count
            fits == {n \in HealthyNodeIds : Cardinality(FreePositions(n)) >= k}
        IN  (job.descriptor.gang_schedule /\ k >= 1) =>
                /\ (config.prefer_same_node /\ fits /= {}) =>
                      \E n \in fits :
                          d.allocations = MapInsert(<<>>, n, FirstFreeDevices(n, k))
                /\ Cardinality(DOMAIN d.allocations) > 1 =>
                      (fits = {} \/ ~config.prefer_same_node)

\* C32 happens: with prefer_same_node on and both nodes healthy, a gang job of
\* 2 GPUs is placed on node-1 alone, whose first GPU is in use: the decision
\* lists cuda:1 and cuda:2.
C32_Witness ==
    /\ config.prefer_same_node
    /\ HealthyNodeIds = NodeIds
    /\ nodes["node-1"].topology.gpus[1].allocated
    /\ \E i \in 1..Len(ret.decisions) :
          /\ jobs[ret.decisions[i].job_id].descriptor.gpu_count = 2
          /\ ret.decisions[i].allocations = MapInsert(<<>>, "node-1", <<1, 2>>)

----------------------------------------------------------------------------
(* Claims about the circuit breaker.                                       *)

============================================================================
